---------------------------- MODULE Spec2Model ----------------------------
(***************************************************************************)
(* A model of the AS-Plugins setup wizard (scripts/setup): the source      *)
(* resolver and orchestrator of main.py, the credential collector and the  *)
(* field validators of credentials.py, and the live validators of          *)
(* validate.py.                                                            *)
(*                                                                         *)
(* Python strings that the code inspects character by character (prompt    *)
(* answers, environment values) are sequences of one-character strings;    *)
(* the empty string is << >>.  Diagnostic messages, which the code only    *)
(* builds and returns, are TLA+ strings.  A Python dict is a function      *)
(* whose DOMAIN is the set of its keys.                                    *)
(***************************************************************************)
EXTENDS Integers, Sequences, FiniteSets, TLC

(***************************************************************************)
(* Bounds of the model.                                                    *)
(***************************************************************************)
\* The most entries one credential source holds in the resolver's inputs.
MaxEntries == 2
\* The most platforms one run of the wizard is asked to configure.
MaxPlatforms == 2
\* The most answers of one run that are not the value the operator means to give.
MaxStray == 1
\* The longest site label in the inputs of the URL validators.
MaxLabel == 4
\* The longest input of the e-mail validator.
MaxEmailLen == 6

(***************************************************************************)
(* Python str helpers.                                                     *)
(***************************************************************************)
EmptyDict == [k \in {} |-> << >>]

Lower == {"a","b","c","d","e","f","g","h","i","j","k","l","m",
          "n","o","p","q","r","s","t","u","v","w","x","y","z"}
Upper == {"A","B","C","D","E","F","G","H","I","J","K","L","M",
          "N","O","P","Q","R","S","T","U","V","W","X","Y","Z"}
Digit == {"0","1","2","3","4","5","6","7","8","9"}
Space == {" ", "\t", "\n", "\r"}

\* str.lower() on one character
LowerChar(c) ==
    CASE c = "A" -> "a" [] c = "B" -> "b" [] c = "C" -> "c" [] c = "D" -> "d"
      [] c = "E" -> "e" [] c = "F" -> "f" [] c = "G" -> "g" [] c = "H" -> "h"
      [] c = "I" -> "i" [] c = "J" -> "j" [] c = "K" -> "k" [] c = "L" -> "l"
      [] c = "M" -> "m" [] c = "N" -> "n" [] c = "O" -> "o" [] c = "P" -> "p"
      [] c = "Q" -> "q" [] c = "R" -> "r" [] c = "S" -> "s" [] c = "T" -> "t"
      [] c = "U" -> "u" [] c = "V" -> "v" [] c = "W" -> "w" [] c = "X" -> "x"
      [] c = "Y" -> "y" [] c = "Z" -> "z" [] OTHER -> c

\* str.lower()
StrLower(s) == [i \in 1..Len(s) |-> LowerChar(s[i])]

\* s.startswith(p)
StartsWith(s, p) == Len(s) >= Len(p) /\ SubSeq(s, 1, Len(p)) = p

\* s.endswith(p)
EndsWith(s, p) == Len(s) >= Len(p) /\ SubSeq(s, Len(s) - Len(p) + 1, Len(s)) = p

\* p in s
Contains(s, p) ==
    \E i \in 1..(Len(s) + 1) :
        i + Len(p) - 1 <= Len(s) /\ SubSeq(s, i, i + Len(p) - 1) = p

\* s.rstrip(chars)
RECURSIVE RStrip(_, _)
RStrip(s, chars) ==
    IF s # << >> /\ s[Len(s)] \in chars
    THEN RStrip(SubSeq(s, 1, Len(s) - 1), chars)
    ELSE s

\* s.lstrip(chars)
RECURSIVE LStrip(_, _)
LStrip(s, chars) ==
    IF s # << >> /\ s[1] \in chars THEN LStrip(Tail(s), chars) ELSE s

\* s.strip()
Strip(s) == LStrip(RStrip(s, Space), Space)

\* every character of s is in chars
AllIn(s, chars) == \A i \in 1..Len(s) : s[i] \in chars

S_http == <<"h","t","t","p">>
S_https_scheme == <<"h","t","t","p","s",":","/","/">>
S_http_scheme == <<"h","t","t","p",":","/","/">>
S_atlassian_net == <<".","a","t","l","a","s","s","i","a","n",".","n","e","t">>

(***************************************************************************)
(* credentials.py: the field validators.  Each returns the Python pair     *)
(* (valid, result) as a record: result is the normalized value when valid  *)
(* and error is the message when not.                                      *)
(***************************************************************************)
Accept(v) == [valid |-> TRUE, result |-> v, error |-> ""]
Reject(msg) == [valid |-> FALSE, result |-> << >>, error |-> msg]

\* url.strip().rstrip("/"), then https:// prepended unless it starts with http
NormalizeUrl(url) ==
    LET u == RStrip(Strip(url), {"/"})
    IN  IF StartsWith(u, S_http) THEN u ELSE S_https_scheme \o u

\* re.match(r"^https://[a-zA-Z0-9-]+\.atlassian\.net$", url)
MatchAtlassianPattern(url) ==
    /\ StartsWith(url, S_https_scheme)
    /\ EndsWith(url, S_atlassian_net)
    /\ Len(url) > Len(S_https_scheme) + Len(S_atlassian_net)
    /\ AllIn(SubSeq(url, Len(S_https_scheme) + 1, Len(url) - Len(S_atlassian_net)),
             Lower \cup Upper \cup Digit \cup {"-"})

\* validate_atlassian_url without the check of lines 122-123.
validate_atlassian_url_NoDomainCheck(url) ==
    IF url = << >> THEN Reject("URL is required")
    ELSE LET u == NormalizeUrl(url)
         IN  IF ~MatchAtlassianPattern(u)
             THEN Reject("Invalid Atlassian URL format")
             ELSE Accept(u)

validate_atlassian_url(url) ==
    IF url = << >> THEN Reject("URL is required")
    ELSE LET u == NormalizeUrl(url)
         IN  IF ~Contains(u, S_atlassian_net)
             THEN Reject("Must be an Atlassian Cloud URL (*.atlassian.net)")
             ELSE IF ~MatchAtlassianPattern(u)
                  THEN Reject("Invalid Atlassian URL format")
                  ELSE Accept(u)

\* re.match(r"^https?://[a-zA-Z0-9.-]+(?::\d+)?(?:/.*)?$", url)
MatchUrlPattern(url) ==
    \E scheme \in {S_https_scheme, S_http_scheme} :
        /\ StartsWith(url, scheme)
        /\ LET rest == SubSeq(url, Len(scheme) + 1, Len(url))
           IN  \E h \in 1..Len(rest) :
                 /\ AllIn(SubSeq(rest, 1, h), Lower \cup Upper \cup Digit \cup {".", "-"})
                 /\ \E p \in h..Len(rest) :
                      \* rest[h+1..p] is the optional ":<digits>" group
                      /\ \/ p = h
                         \/ /\ p >= h + 2
                            /\ rest[h + 1] = ":"
                            /\ AllIn(SubSeq(rest, h + 2, p), Digit)
                      \* rest[p+1..] is the optional "/<anything>" group; "$" also
                      \* matches just before one trailing newline
                      /\ LET tail == SubSeq(rest, p + 1, Len(rest))
                             path == IF tail # << >> /\ tail[Len(tail)] = "\n"
                                     THEN {tail, SubSeq(tail, 1, Len(tail) - 1)}
                                     ELSE {tail}
                         IN  \E t \in path :
                               \/ t = << >>
                               \/ /\ t[1] = "/"
                                  /\ AllIn(Tail(t), (Lower \cup Upper \cup Digit \cup Space
                                             \cup {".", "-", ":", "/", "@", "$", "(", ")", "_", "%", "+"})
                                             \ {"\n"})

validate_url(url) ==
    IF url = << >> THEN Reject("URL is required")
    ELSE LET u == NormalizeUrl(url)
         IN  IF ~MatchUrlPattern(u) THEN Reject("Invalid URL format") ELSE Accept(u)

\* re.match(r"^[a-zA-Z0-9._%+-]+@[a-zA-Z0-9.-]+\.[a-zA-Z]{2,}$", email)
MatchEmailPattern(email) ==
    \E at \in 2..Len(email) :
        /\ email[at] = "@"
        /\ AllIn(SubSeq(email, 1, at - 1),
                 Lower \cup Upper \cup Digit \cup {".", "_", "%", "+", "-"})
        /\ \E dot \in (at + 2)..Len(email) :
             /\ email[dot] = "."
             /\ AllIn(SubSeq(email, at + 1, dot - 1), Lower \cup Upper \cup Digit \cup {".", "-"})
             /\ Len(email) - dot >= 2
             /\ AllIn(SubSeq(email, dot + 1, Len(email)), Lower \cup Upper)

\* validate_email without .lower().
validate_email_NoLower(email) ==
    IF email = << >> THEN Reject("Email is required")
    ELSE LET e == Strip(email)
         IN  IF ~MatchEmailPattern(e) THEN Reject("Invalid email format") ELSE Accept(e)

validate_email(email) ==
    IF email = << >> THEN Reject("Email is required")
    ELSE LET e == StrLower(Strip(email))
         IN  IF ~MatchEmailPattern(e) THEN Reject("Invalid email format") ELSE Accept(e)

\* VALIDATORS.get(validator_name), applied; "none" is a prompt without validator
RunValidator(validator_name, value) ==
    CASE validator_name = "atlassian_url" -> validate_atlassian_url(value)
      [] validator_name = "url"           -> validate_url(value)
      [] validator_name = "email"         -> validate_email(value)
      [] OTHER                            -> Accept(value)

(***************************************************************************)
(* credentials.py: PLATFORM_CONFIGS.                                       *)
(***************************************************************************)
\* The keys of PLATFORM_CONFIGS, in dict order.
PlatformOrder == <<"confluence", "jira", "splunk", "gitlab">>
PlatformNames == {PlatformOrder[i] : i \in 1..Len(PlatformOrder)}

S_gitlab_com == <<"h","t","t","p","s",":","/","/","g","i","t","l","a","b",".","c","o","m">>

\* One entry of a platform's "prompts" dict, with the defaults that
\* collect_credentials reads through prompt_config.get(...).
PromptConfig(validator, hidden, help, optional, default) ==
    [validator |-> validator, hidden |-> hidden, help |-> help,
     optional |-> optional, default |-> default]

PLATFORM_CONFIGS ==
    [p \in PlatformNames |->
       CASE p = "confluence" ->
              [required_vars |-> <<"CONFLUENCE_SITE_URL", "CONFLUENCE_EMAIL", "CONFLUENCE_API_TOKEN">>,
               optional_vars |-> << >>,
               url_var |-> "CONFLUENCE_SITE_URL",
               installation_type |-> "package",
               cli_name |-> "",
               prompt_order |-> <<"CONFLUENCE_SITE_URL", "CONFLUENCE_EMAIL", "CONFLUENCE_API_TOKEN">>,
               prompts |-> [v \in {"CONFLUENCE_SITE_URL", "CONFLUENCE_EMAIL", "CONFLUENCE_API_TOKEN"} |->
                   CASE v = "CONFLUENCE_SITE_URL" -> PromptConfig("atlassian_url", FALSE, FALSE, FALSE, << >>)
                     [] v = "CONFLUENCE_EMAIL"    -> PromptConfig("email", FALSE, FALSE, FALSE, << >>)
                     [] OTHER                     -> PromptConfig("none", TRUE, TRUE, FALSE, << >>)]]
         [] p = "jira" ->
              [required_vars |-> <<"JIRA_SITE_URL", "JIRA_EMAIL", "JIRA_API_TOKEN">>,
               optional_vars |-> << >>,
               url_var |-> "JIRA_SITE_URL",
               installation_type |-> "package",
               cli_name |-> "",
               prompt_order |-> <<"JIRA_SITE_URL", "JIRA_EMAIL", "JIRA_API_TOKEN">>,
               prompts |-> [v \in {"JIRA_SITE_URL", "JIRA_EMAIL", "JIRA_API_TOKEN"} |->
                   CASE v = "JIRA_SITE_URL" -> PromptConfig("atlassian_url", FALSE, FALSE, FALSE, << >>)
                     [] v = "JIRA_EMAIL"    -> PromptConfig("email", FALSE, FALSE, FALSE, << >>)
                     [] OTHER               -> PromptConfig("none", TRUE, TRUE, FALSE, << >>)]]
         [] p = "splunk" ->
              [required_vars |-> <<"SPLUNK_SITE_URL", "SPLUNK_USERNAME", "SPLUNK_PASSWORD">>,
               optional_vars |-> << >>,
               url_var |-> "SPLUNK_SITE_URL",
               installation_type |-> "package",
               cli_name |-> "",
               prompt_order |-> <<"SPLUNK_SITE_URL", "SPLUNK_USERNAME", "SPLUNK_PASSWORD">>,
               prompts |-> [v \in {"SPLUNK_SITE_URL", "SPLUNK_USERNAME", "SPLUNK_PASSWORD"} |->
                   CASE v = "SPLUNK_SITE_URL" -> PromptConfig("url", FALSE, FALSE, FALSE, << >>)
                     [] v = "SPLUNK_USERNAME" -> PromptConfig("none", FALSE, FALSE, FALSE, << >>)
                     [] OTHER                 -> PromptConfig("none", TRUE, FALSE, FALSE, << >>)]]
         [] OTHER ->
              [required_vars |-> <<"GITLAB_TOKEN">>,
               optional_vars |-> <<"GITLAB_HOST">>,
               url_var |-> "GITLAB_HOST",
               installation_type |-> "cli",
               cli_name |-> "glab",
               prompt_order |-> <<"GITLAB_HOST", "GITLAB_TOKEN">>,
               prompts |-> [v \in {"GITLAB_HOST", "GITLAB_TOKEN"} |->
                   CASE v = "GITLAB_HOST" -> PromptConfig("url", FALSE, TRUE, TRUE, S_gitlab_com)
                     [] OTHER             -> PromptConfig("none", TRUE, TRUE, FALSE, << >>)]]]

Range(seq) == {seq[i] : i \in 1..Len(seq)}

\* dict.get(key, "")
Get(d, k) == IF k \in DOMAIN d THEN d[k] ELSE << >>

(***************************************************************************)
(* validate.py: the live validators.                                       *)
(*                                                                         *)
(* What one requests.get / requests.post call can do is an Outcome: a      *)
(* response with a status code and a body, or one of the exceptions the    *)
(* code distinguishes.  SSLError is a subclass of ConnectionError in       *)
(* requests.  A validator takes the outcomes of its successive calls as    *)
(* the sequence net and returns (success, message) together with the log   *)
(* of the calls it made.                                                   *)
(***************************************************************************)
StatusCodes == {200, 401, 403, 404, 500}
\* "named": a JSON object with a displayName; "anonymous": a JSON object
\* without one; "invalid": response.json() raises, or the JSON is no object.
Bodies == {"named", "anonymous", "invalid"}
Exceptions == {"Timeout", "ConnectionError", "SSLError", "Exception"}

Response(status, body) == [kind |-> "response", status |-> status, body |-> body]
Raised(exc) == [kind |-> exc, status |-> 0, body |-> "none"]

Outcomes ==
    {Response(200, b) : b \in Bodies}
      \cup {Response(s, "none") : s \in StatusCodes \ {200}}
      \cup {Raised(e) : e \in Exceptions}

DisplayName == "Alice"

\* urljoin(url + "/", path): the base with "/" appended, and the relative path
UrlJoin(url, path) == [base |-> url \o <<"/">>, path |-> path]

\* requests refuses a URL without an http(s) scheme (MissingSchema, InvalidSchema:
\* neither a Timeout nor a ConnectionError) before any network traffic; otherwise
\* the call ends as the network decides.
requests_call(api_url, outcome) ==
    IF StartsWith(StrLower(api_url.base), S_https_scheme)
         \/ StartsWith(StrLower(api_url.base), S_http_scheme)
    THEN outcome
    ELSE Raised("Exception")

\* f"{email}:{token}", which the Authorization header carries base64-encoded
BasicAuth(email, token) == email \o <<":">> \o token

\* What a validator returns: the pair (success, message), with the log of the
\* calls it made.  raised names an exception that leaves the validator
\* uncaught; "" when it returns.
Result(success, message, requests) ==
    [success |-> success, message |-> message, requests |-> requests, raised |-> ""]
Uncaught(exc, requests) ==
    [success |-> FALSE, message |-> "", requests |-> requests, raised |-> exc]

\* What one pass of an endpoint loop decides: return (success, message), or go
\* on to the next endpoint with last_status as given (0 is None).
Return(success, message) ==
    [stop |-> TRUE, success |-> success, message |-> message, last_status |-> 0]
Continue(last_status) ==
    [stop |-> FALSE, success |-> FALSE, message |-> "", last_status |-> last_status]

ConfluenceEndpoints ==
    <<[path |-> "wiki/rest/api/user/current", type |-> "user"],
      [path |-> "wiki/api/v2/spaces?limit=1", type |-> "spaces"],
      [path |-> "wiki/rest/api/space?limit=1", type |-> "spaces"]>>

\* ConfluenceOnResponse with a 401 treated as "try the next endpoint".
ConfluenceOnResponse_Skip401(endpoint_type, out) ==
    IF out.status = 200
    THEN IF out.body = "invalid" THEN Continue(out.status)
         ELSE IF endpoint_type = "user" /\ out.body = "named"
              THEN Return(TRUE, "Connected as " \o DisplayName)
              ELSE Return(TRUE, "Connected")
    ELSE Continue(out.status)

\* ConfluenceOnResponse with a 403 treated as fatal, as validate_jira does.
ConfluenceOnResponse_Fatal403(endpoint_type, out) ==
    IF out.status = 200
    THEN IF out.body = "invalid" THEN Continue(out.status)
         ELSE IF endpoint_type = "user" /\ out.body = "named"
              THEN Return(TRUE, "Connected as " \o DisplayName)
              ELSE Return(TRUE, "Connected")
    ELSE IF out.status = 401 THEN Return(FALSE, "Invalid credentials (401 Unauthorized)")
    ELSE IF out.status = 403 THEN Return(FALSE, "Access denied - check API token permissions")
    ELSE Continue(out.status)

\* validate_confluence, lines 53-73: a response was received.  A body that
\* response.json() or data.get() cannot read raises inside the try block and
\* reaches "except Exception: continue" with last_status already set.
ConfluenceOnResponse(endpoint_type, out) ==
    IF out.status = 200
    THEN IF out.body = "invalid" THEN Continue(out.status)
         ELSE IF endpoint_type = "user" /\ out.body = "named"
              THEN Return(TRUE, "Connected as " \o DisplayName)
              ELSE Return(TRUE, "Connected")
    ELSE IF out.status = 401 THEN Return(FALSE, "Invalid credentials (401 Unauthorized)")
    ELSE IF out.status = 403 THEN Continue(out.status)
    ELSE IF out.status = 404 THEN Continue(out.status)
    ELSE Continue(out.status)

\* ConfluenceOnException with every exception ending the validation.
ConfluenceOnException_FatalAny(out, last_status) ==
    CASE out.kind = "Timeout" -> Return(FALSE, "Connection timed out")
      [] out.kind \in {"ConnectionError", "SSLError"} ->
           Return(FALSE, "Could not connect to server")
      [] OTHER -> Return(FALSE, "Could not validate credentials")

\* validate_confluence, lines 75-80: the call raised.
ConfluenceOnException(out, last_status) ==
    CASE out.kind = "Timeout" -> Return(FALSE, "Connection timed out")
      [] out.kind \in {"ConnectionError", "SSLError"} ->
           Return(FALSE, "Could not connect to server")
      [] OTHER -> Continue(last_status)

\* validate_confluence, lines 82-89: no endpoint returned.
ConfluenceExhausted(last_status) ==
    IF last_status = 403 THEN "Access denied - check API token permissions"
    ELSE IF last_status = 404 THEN "Confluence not found at this URL"
    ELSE IF last_status # 0 THEN "API returned status " \o ToString(last_status)
    ELSE "Could not validate credentials"

\* The for loop of validate_confluence from endpoint i on.
RECURSIVE ConfluenceLoop(_, _, _, _, _, _)
ConfluenceLoop(url, auth, net, i, last_status, requests) ==
    IF i > Len(ConfluenceEndpoints)
    THEN Result(FALSE, ConfluenceExhausted(last_status), requests)
    ELSE
      LET ep == ConfluenceEndpoints[i]
          api_url == UrlJoin(url, ep.path)
          out == requests_call(api_url, net[i])
          reqs == Append(requests, [method |-> "GET", url |-> api_url, auth |-> auth,
                                    verify |-> "default", outcome |-> out])
          decision == IF out.kind = "response" THEN ConfluenceOnResponse(ep.type, out)
                      ELSE ConfluenceOnException(out, last_status)
      IN  IF decision.stop THEN Result(decision.success, decision.message, reqs)
          ELSE ConfluenceLoop(url, auth, net, i + 1, decision.last_status, reqs)

validate_confluence(url, email, token, net) ==
    ConfluenceLoop(url, BasicAuth(email, token), net, 1, 0, << >>)

JiraEndpoints ==
    <<[path |-> "rest/api/3/myself", type |-> "user"],
      [path |-> "rest/api/2/myself", type |-> "user"]>>

\* JiraOnResponse with a 404 treated as fatal.
JiraOnResponse_Fatal404(out) ==
    IF out.status = 200
    THEN IF out.body = "invalid" THEN Continue(out.status)
         ELSE IF out.body = "named" THEN Return(TRUE, "Connected as " \o DisplayName)
              ELSE Return(TRUE, "Connected as Unknown")
    ELSE IF out.status = 401 THEN Return(FALSE, "Invalid credentials (401 Unauthorized)")
    ELSE IF out.status = 403 THEN Return(FALSE, "Access denied - check API token permissions")
    ELSE IF out.status = 404 THEN Return(FALSE, "JIRA not found at this URL")
    ELSE Continue(out.status)

\* JiraOnResponse with a 403 treated as "try the next endpoint".
JiraOnResponse_Skip403(out) ==
    IF out.status = 200
    THEN IF out.body = "invalid" THEN Continue(out.status)
         ELSE IF out.body = "named" THEN Return(TRUE, "Connected as " \o DisplayName)
              ELSE Return(TRUE, "Connected as Unknown")
    ELSE IF out.status = 401 THEN Return(FALSE, "Invalid credentials (401 Unauthorized)")
    ELSE Continue(out.status)

\* validate_jira, lines 123-138: a response was received.
JiraOnResponse(out) ==
    IF out.status = 200
    THEN IF out.body = "invalid" THEN Continue(out.status)
         ELSE IF out.body = "named" THEN Return(TRUE, "Connected as " \o DisplayName)
              ELSE Return(TRUE, "Connected as Unknown")
    ELSE IF out.status = 401 THEN Return(FALSE, "Invalid credentials (401 Unauthorized)")
    ELSE IF out.status = 403 THEN Return(FALSE, "Access denied - check API token permissions")
    ELSE IF out.status = 404 THEN Continue(out.status)
    ELSE Continue(out.status)

\* JiraOnException with the timeout swallowed like any other exception.
JiraOnException_SwallowTimeout(out, last_status) ==
    CASE out.kind \in {"ConnectionError", "SSLError"} ->
           Return(FALSE, "Could not connect to server")
      [] OTHER -> Continue(last_status)

\* validate_jira, lines 140-145: the call raised.
JiraOnException(out, last_status) ==
    CASE out.kind = "Timeout" -> Return(FALSE, "Connection timed out")
      [] out.kind \in {"ConnectionError", "SSLError"} ->
           Return(FALSE, "Could not connect to server")
      [] OTHER -> Continue(last_status)

\* validate_jira, lines 147-151: no endpoint returned.
JiraExhausted(last_status) ==
    IF last_status = 404 THEN "JIRA not found at this URL"
    ELSE IF last_status # 0 THEN "API returned status " \o ToString(last_status)
    ELSE "Could not validate credentials"

\* The for loop of validate_jira from endpoint i on.
RECURSIVE JiraLoop(_, _, _, _, _, _)
JiraLoop(url, auth, net, i, last_status, requests) ==
    IF i > Len(JiraEndpoints)
    THEN Result(FALSE, JiraExhausted(last_status), requests)
    ELSE
      LET ep == JiraEndpoints[i]
          api_url == UrlJoin(url, ep.path)
          out == requests_call(api_url, net[i])
          reqs == Append(requests, [method |-> "GET", url |-> api_url, auth |-> auth,
                                    verify |-> "default", outcome |-> out])
          decision == IF out.kind = "response" THEN JiraOnResponse(out)
                      ELSE JiraOnException(out, last_status)
      IN  IF decision.stop THEN Result(decision.success, decision.message, reqs)
          ELSE JiraLoop(url, auth, net, i + 1, decision.last_status, reqs)

validate_jira(url, email, token, net) ==
    JiraLoop(url, BasicAuth(email, token), net, 1, 0, << >>)

S_false == <<"f","a","l","s","e">>
S_true == <<"t","r","u","e">>
S_no == <<"n","o">>
S_yes == <<"y","e","s">>

\* The SSL setting handed to requests as verify=...: a CA bundle path, True,
\* False, or None ("try both").
VerifyCert(path) == [kind |-> "ca_cert", path |-> path]
VerifyTrue == [kind |-> "True", path |-> << >>]
VerifyFalse == [kind |-> "False", path |-> << >>]
VerifyNone == [kind |-> "None", path |-> << >>]

\* The setting that looks at SPLUNK_VERIFY_SSL before SPLUNK_CA_CERT.
get_splunk_ssl_verify_OverrideFirst(os_environ, files) ==
    LET ca_cert == Get(os_environ, "SPLUNK_CA_CERT")
        verify_ssl == StrLower(Get(os_environ, "SPLUNK_VERIFY_SSL"))
    IN  IF verify_ssl \in {S_false, <<"0">>, S_no} THEN VerifyFalse
        ELSE IF verify_ssl \in {S_true, <<"1">>, S_yes} THEN VerifyTrue
        ELSE IF ca_cert # << >> /\ ca_cert \in files THEN VerifyCert(ca_cert)
        ELSE VerifyNone

\* os_environ is os.environ; files is the set of paths os.path.isfile accepts.
get_splunk_ssl_verify(os_environ, files) ==
    LET ca_cert == Get(os_environ, "SPLUNK_CA_CERT")
        verify_ssl == StrLower(Get(os_environ, "SPLUNK_VERIFY_SSL"))
    IN  IF ca_cert # << >> /\ ca_cert \in files THEN VerifyCert(ca_cert)
        ELSE IF verify_ssl \in {S_false, <<"0">>, S_no} THEN VerifyFalse
        ELSE IF verify_ssl \in {S_true, <<"1">>, S_yes} THEN VerifyTrue
        ELSE VerifyNone

\* One _make_request(verify_setting) call, as a log entry.
SplunkRequest(api_url, username, password, verify_setting, outcome) ==
    [method |-> "POST", url |-> api_url, auth |-> BasicAuth(username, password),
     verify |-> verify_setting.kind, outcome |-> requests_call(api_url, outcome)]

\* SplunkOnResponse with a 403 reported as invalid credentials.
SplunkOnResponse_403AsInvalid(out, requests) ==
    IF out.status = 200 THEN Result(TRUE, "Connected", requests)
    ELSE IF out.status \in {401, 403}
    THEN Result(FALSE, "Invalid credentials (401 Unauthorized)", requests)
    ELSE Result(FALSE, "API returned status " \o ToString(out.status), requests)

\* validate_splunk, lines 228-234: the status mapping of the response.
SplunkOnResponse(out, requests) ==
    IF out.status = 200 THEN Result(TRUE, "Connected", requests)
    ELSE IF out.status = 401
    THEN Result(FALSE, "Invalid credentials (401 Unauthorized)", requests)
    ELSE Result(FALSE, "API returned status " \o ToString(out.status), requests)

\* SplunkOnException without the final "except Exception" clause.
SplunkOnException_NoCatchAll(out, requests) ==
    CASE out.kind = "SSLError" ->
           Result(FALSE, "SSL error. Set SPLUNK_VERIFY_SSL=false for self-signed certs", requests)
      [] out.kind = "Timeout" -> Result(FALSE, "Connection timed out", requests)
      [] out.kind = "ConnectionError" -> Result(FALSE, "Could not connect to server", requests)
      [] OTHER -> Uncaught(out.kind, requests)

\* validate_splunk, lines 236-243: the except clauses of the outer try.
SplunkOnException(out, requests) ==
    CASE out.kind = "SSLError" ->
           Result(FALSE, "SSL error. Set SPLUNK_VERIFY_SSL=false for self-signed certs", requests)
      [] out.kind = "Timeout" -> Result(FALSE, "Connection timed out", requests)
      [] out.kind = "ConnectionError" -> Result(FALSE, "Could not connect to server", requests)
      [] OTHER -> Result(FALSE, "Error: request failed", requests)

\* What the outer try block of validate_splunk makes of its last call.
SplunkOutcome(out, requests) ==
    IF out.kind = "response" THEN SplunkOnResponse(out, requests)
    ELSE SplunkOnException(out, requests)

\* validate_splunk with the fallback of lines 221-224 applied under every
\* policy: an SSL error of the first request is followed by a request
\* without verification.
validate_splunk_RetryAlways(url, username, password, net, os_environ, files) ==
    LET api_url == UrlJoin(url, "services/auth/login")
        ssl_verify == get_splunk_ssl_verify(os_environ, files)
        first == SplunkRequest(api_url, username, password,
                               IF ssl_verify = VerifyNone THEN VerifyTrue ELSE ssl_verify,
                               net[1])
    IN  IF first.outcome.kind = "SSLError"
        THEN LET second == SplunkRequest(api_url, username, password, VerifyFalse, net[2])
             IN  SplunkOutcome(second.outcome, <<first, second>>)
        ELSE SplunkOutcome(first.outcome, <<first>>)

validate_splunk(url, username, password, net, os_environ, files) ==
    LET api_url == UrlJoin(url, "services/auth/login")
        ssl_verify == get_splunk_ssl_verify(os_environ, files)
    IN  IF ssl_verify = VerifyNone
        THEN LET first == SplunkRequest(api_url, username, password, VerifyTrue, net[1])
             IN  IF first.outcome.kind = "SSLError"
                 THEN LET second == SplunkRequest(api_url, username, password,
                                                  VerifyFalse, net[2])
                      IN  SplunkOutcome(second.outcome, <<first, second>>)
                 ELSE SplunkOutcome(first.outcome, <<first>>)
        ELSE LET only == SplunkRequest(api_url, username, password, ssl_verify, net[1])
             IN  SplunkOutcome(only.outcome, <<only>>)

\* The validator a validate_credentials call reaches, with its arguments.
Call(validator, a, b, c) == [validator |-> validator, url |-> a, user |-> b, secret |-> c]

\* validate_credentials' dispatch: which validator it calls with which values.
validate_credentials_call(platform, credentials) ==
    CASE platform = "confluence" ->
           Call("validate_confluence", Get(credentials, "CONFLUENCE_SITE_URL"),
                Get(credentials, "CONFLUENCE_EMAIL"), Get(credentials, "CONFLUENCE_API_TOKEN"))
      [] platform = "jira" ->
           Call("validate_jira", Get(credentials, "JIRA_SITE_URL"),
                Get(credentials, "JIRA_EMAIL"), Get(credentials, "JIRA_API_TOKEN"))
      [] platform = "splunk" ->
           Call("validate_splunk", Get(credentials, "SPLUNK_URL"),
                Get(credentials, "SPLUNK_USERNAME"), Get(credentials, "SPLUNK_PASSWORD"))
      [] OTHER -> Call("none", << >>, << >>, << >>)

validate_credentials(platform, credentials, net, os_environ, files) ==
    LET call == validate_credentials_call(platform, credentials)
    IN  CASE call.validator = "validate_confluence" ->
               validate_confluence(call.url, call.user, call.secret, net)
          [] call.validator = "validate_jira" ->
               validate_jira(call.url, call.user, call.secret, net)
          [] call.validator = "validate_splunk" ->
               validate_splunk(call.url, call.user, call.secret, net, os_environ, files)
          [] OTHER -> Result(FALSE, "Unknown platform: " \o platform, << >>)

(***************************************************************************)
(* main.py: the source resolver, detect_existing_config.                   *)
(***************************************************************************)
ENV_FILE == "~/.env"
SIBLING_ENV_FILE == "as-demo/secrets/.env"

platform_prefixes == {"CONFLUENCE_", "JIRA_", "SPLUNK_", "GITLAB_"}

\* The part of a variable name up to and including its first underscore when
\* that is one of the platform prefixes, "" otherwise.
NamePrefix(k) ==
    CASE k \in {"CONFLUENCE_SITE_URL", "CONFLUENCE_EMAIL", "CONFLUENCE_API_TOKEN"} -> "CONFLUENCE_"
      [] k \in {"JIRA_SITE_URL", "JIRA_EMAIL", "JIRA_API_TOKEN"} -> "JIRA_"
      [] k \in {"SPLUNK_SITE_URL", "SPLUNK_USERNAME", "SPLUNK_PASSWORD",
                "SPLUNK_URL", "SPLUNK_CA_CERT", "SPLUNK_VERIFY_SSL"} -> "SPLUNK_"
      [] k \in {"GITLAB_HOST", "GITLAB_TOKEN"} -> "GITLAB_"
      [] OTHER -> ""

\* The shell source that takes every variable of the process environment.
shell_env_Unfiltered(os_environ) == os_environ

\* {k: v for k, v in os.environ.items() if k.startswith(platform_prefixes)}
shell_env(os_environ) ==
    [k \in {n \in DOMAIN os_environ : NamePrefix(n) \in platform_prefixes} |-> os_environ[k]]

\* env_file.discover_env_files(): the env files present on disk, ~/.env first.
discover_env_files(files) ==
    SelectSeq(<<[label |-> "~/.env", path |-> ENV_FILE],
                [label |-> "as-demo/secrets/.env", path |-> SIBLING_ENV_FILE]>>,
              LAMBDA f : f.path \in DOMAIN files)

\* env_file.load_env_file(path): the KEY=value entries of the file, {} without it.
load_env_file(files, path) == IF path \in DOMAIN files THEN files[path] ELSE EmptyDict

Source(label, env) == [label |-> label, env |-> env]

\* Lines 69-81: the ordered sources; a source without entries is left out.
BuildSources(os_environ, files) ==
    LET shell == shell_env(os_environ)
        found == discover_env_files(files)
        loaded == [i \in 1..Len(found) |->
                      Source(found[i].label, load_env_file(files, found[i].path))]
    IN  (IF shell # EmptyDict THEN <<Source("shell", shell)>> ELSE << >>)
          \o SelectSeq(loaded, LAMBDA src : src.env # EmptyDict)

\* dict.update
Update(d, e) == [k \in DOMAIN d \cup DOMAIN e |-> IF k \in DOMAIN e THEN e[k] ELSE d[k]]

\* Lines 84-86: merged_env.update(env_dict) over reversed(sources), from the
\* i-th source down to the first.
RECURSIVE MergeFrom(_, _, _)
MergeFrom(srcs, i, merged_env) ==
    IF i = 0 THEN merged_env
    ELSE MergeFrom(srcs, i - 1, Update(merged_env, srcs[i].env))

\* The merge taken over the sources in listed order, so that later sources
\* override earlier ones.
RECURSIVE MergeForward(_, _, _)
MergeForward(srcs, i, merged_env) ==
    IF i > Len(srcs) THEN merged_env
    ELSE MergeForward(srcs, i + 1, Update(merged_env, srcs[i].env))

MergeSources_ListedOrder(srcs) == MergeForward(srcs, 1, EmptyDict)

MergeSources(srcs) == MergeFrom(srcs, Len(srcs), EmptyDict)

\* FullyConfigured with "var in merged_env" in place of merged_env.get(var).
FullyConfigured_Present(merged_env, platform) ==
    \A var \in Range(PLATFORM_CONFIGS[platform].required_vars) :
        var \in DOMAIN merged_env

\* Line 92: all(merged_env.get(var) for var in required_vars)
FullyConfigured(merged_env, platform) ==
    \A var \in Range(PLATFORM_CONFIGS[platform].required_vars) :
        Get(merged_env, var) # << >>

\* Lines 89-93: the configured dict.
ConfiguredPlatforms(merged_env) ==
    [p \in {q \in PlatformNames : FullyConfigured(merged_env, q)} |->
        [var \in Range(PLATFORM_CONFIGS[p].required_vars) |-> merged_env[var]]]

\* The keys of a dict keyed by platform, in PLATFORM_CONFIGS order.
PlatformKeys(d) == SelectSeq(PlatformOrder, LAMBDA p : p \in DOMAIN d)

(***************************************************************************)
(* State.                                                                  *)
(***************************************************************************)
VARIABLES
    pc,                \* where the run is
    exit_code,         \* the process exit code; -1 while the run goes on
    \* the world the run starts in
    os_environ,        \* os.environ
    fs,                \* the env files on disk: path -> entries
    ca_files,          \* the paths os.path.isfile accepts as a CA bundle
    flags,             \* VALIDATE_ONLY, SKIP_CREDENTIALS, IS_INTERACTIVE, SKIP_PLUGINS, PLATFORMS_ARG
    cli_tools,         \* the CLI tools shutil.which finds
    now,               \* the clock, in the unit of the backup timestamps
    \* detect_existing_config
    sources,           \* the ordered sources
    existing_env,      \* merged_env
    configured,        \* platform -> its required values
    \* main
    validation_status, \* validate_existing_config: platform -> valid, message
    platforms,         \* the platforms the loop of main runs over
    idx,               \* the position of the loop in platforms
    credentials,       \* platform -> the credentials accepted for it
    cred_order,        \* the keys of credentials in insertion order
    reuse_atlassian,   \* "None", "True" or "False"
    last_validation,   \* the latest validate_credentials call of main and its result
    continue_asked,    \* the platforms "Continue anyway?" was asked for, with the answer
    to_install,        \* the platforms handed to the install steps
    pip_log,           \* the pip installs attempted, with their success
    plugin_log,        \* the plugin installs attempted, with their success
    \* collect_credentials
    creds,             \* the credentials dict being collected
    field,             \* the position in the platform's prompts
    prompted,          \* the fields prompted for in this call, one entry per prompt
    strays,            \* the answers so far that were not the intended value
    \* one validate_credentials call on its own
    v_call,            \* its arguments
    v_result,          \* what it returned
    \* one field validator call on its own
    f_call,            \* the validator's name and its argument
    f_result           \* what it returned

world == <<os_environ, ca_files, flags, cli_tools, now>>
resolver == <<sources, existing_env, configured>>
orchestrator == <<validation_status, platforms, idx, credentials, cred_order, reuse_atlassian,
                  last_validation, continue_asked, to_install, pip_log, plugin_log>>
collector == <<creds, field, prompted, strays>>
validator == <<v_call, v_result, f_call, f_result>>

vars == <<pc, exit_code, fs, world, resolver, orchestrator, collector, validator>>

NoCall == [platform |-> "", credentials |-> EmptyDict, net |-> << >>]
NoResult == Result(FALSE, "", << >>)
NoValidation == [platform |-> "", site |-> "", call |-> Call("none", << >>, << >>, << >>),
                 success |-> FALSE, message |-> ""]
NoFlags == [VALIDATE_ONLY |-> FALSE, SKIP_CREDENTIALS |-> FALSE, IS_INTERACTIVE |-> TRUE,
            SKIP_PLUGINS |-> FALSE, PLATFORMS_ARG |-> << >>]

\* Everything a run computes, before it has computed anything.
Fresh ==
    /\ exit_code = -1
    /\ sources = << >>
    /\ existing_env = EmptyDict
    /\ configured = EmptyDict
    /\ validation_status = EmptyDict
    /\ platforms = << >>
    /\ idx = 0
    /\ credentials = EmptyDict
    /\ cred_order = << >>
    /\ reuse_atlassian = "None"
    /\ last_validation = NoValidation
    /\ continue_asked = EmptyDict
    /\ to_install = << >>
    /\ pip_log = << >>
    /\ plugin_log = << >>
    /\ creds = EmptyDict
    /\ field = 0
    /\ prompted = << >>
    /\ strays = 0
    /\ v_call = NoCall
    /\ v_result = NoResult
    /\ f_call = [validator |-> "none", value |-> << >>]
    /\ f_result = Accept(<< >>)

(***************************************************************************)
(* The source resolver on bounded inputs.                                  *)
(***************************************************************************)
\* The dicts with at most MaxEntries of the given keys, each mapped to the
\* empty string or to val.
Dicts(keys, val) ==
    UNION {[ks -> {<< >>, val}] : ks \in {k \in SUBSET keys : Cardinality(k) <= MaxEntries}}

InitResolver ==
    /\ pc = "start"
    /\ \E p \in PlatformNames :
         LET fields == Range(PLATFORM_CONFIGS[p].prompt_order)
         IN  /\ os_environ \in Dicts(fields \cup {"PATH"}, <<"s">>)
             /\ \E home \in Dicts(fields, <<"h">>), sibling \in Dicts(fields, <<"d">>),
                   present \in SUBSET {ENV_FILE, SIBLING_ENV_FILE} :
                  fs = [path \in present |-> IF path = ENV_FILE THEN home ELSE sibling]
    /\ ca_files = {}
    /\ flags = NoFlags
    /\ cli_tools = {}
    /\ now = 0
    /\ Fresh

\* main(), line 536: configured, existing_env, sources = detect_existing_config()
DetectExistingConfig ==
    /\ pc = "start"
    /\ pc' = "detected"
    /\ sources' = BuildSources(os_environ, fs)
    /\ existing_env' = MergeSources(sources')
    /\ configured' = ConfiguredPlatforms(existing_env')
    /\ UNCHANGED <<exit_code, fs, world, orchestrator, collector, validator>>

NextResolver == DetectExistingConfig

SpecResolver == InitResolver /\ [][NextResolver]_vars

(***************************************************************************)
(* The live validators on every sequence of network outcomes.              *)
(***************************************************************************)
S_site == S_https_scheme \o <<"x">> \o S_atlassian_net
S_mail == <<"u","@","c",".","i","o">>
S_token == <<"t","o","k">>
S_ca_path == <<"/","c","a">>

\* The credentials a call is made with: every field of the platform set, none
\* set, or the site URL stored without its scheme.
CredentialChoices(platform) ==
    IF platform \notin PlatformNames THEN {EmptyDict}
    ELSE LET cfg == PLATFORM_CONFIGS[platform]
             full == [var \in Range(cfg.required_vars) |->
                         IF var = cfg.required_vars[1] THEN S_site
                         ELSE IF var = cfg.required_vars[2] THEN S_mail ELSE S_token]
         IN  {EmptyDict, full,
              [full EXCEPT ![cfg.required_vars[1]] = <<"x">> \o S_atlassian_net]}
               \cup (IF platform = "splunk"
                     THEN {[SPLUNK_URL |-> S_site, SPLUNK_USERNAME |-> S_mail,
                            SPLUNK_PASSWORD |-> S_token]}
                     ELSE {})

\* The most requests one validator makes.
MaxRequests(platform) ==
    CASE platform = "confluence" -> Len(ConfluenceEndpoints)
      [] platform = "jira" -> Len(JiraEndpoints)
      [] platform = "splunk" -> 2
      [] OTHER -> 0

InitValidators ==
    /\ pc = "idle"
    /\ os_environ \in {EmptyDict,
                       [SPLUNK_VERIFY_SSL |-> <<"F","a","l","s","e">>],
                       [SPLUNK_VERIFY_SSL |-> <<"1">>],
                       [SPLUNK_VERIFY_SSL |-> <<"o","n">>],
                       [SPLUNK_CA_CERT |-> S_ca_path, SPLUNK_VERIFY_SSL |-> S_false]}
    /\ ca_files \in {{}, {S_ca_path}}
    /\ fs = EmptyDict
    /\ flags = NoFlags
    /\ cli_tools = {}
    /\ now = 0
    /\ Fresh

\* One call validate_credentials(platform, credentials).
ValidateCredentials ==
    /\ pc = "idle"
    /\ pc' = "returned"
    /\ \E platform \in PlatformNames \cup {"bitbucket"} :
         \E given \in CredentialChoices(platform),
            net \in [1..MaxRequests(platform) -> Outcomes] :
           /\ v_call' = [platform |-> platform, credentials |-> given, net |-> net]
           /\ v_result' = validate_credentials(platform, given, net, os_environ, ca_files)
    /\ UNCHANGED <<exit_code, fs, world, resolver, orchestrator, collector, f_call, f_result>>

NextValidators == ValidateCredentials

SpecValidators == InitValidators /\ [][NextValidators]_vars

(***************************************************************************)
(* The field validators on bounded inputs.                                 *)
(***************************************************************************)
\* The strings of at most n characters of the alphabet.
Strings(alphabet, n) == UNION {[1..k -> alphabet] : k \in 0..n}

S_example_com == <<".","e","x","a","m","p","l","e",".","c","o","m">>

\* URL inputs: with and without the https scheme; a site label; and what follows it:
\* the Atlassian domain, another domain, the Atlassian domain as a
\* subdomain of another or in the path of another, with a trailing slash or
\* with a port.
UrlInputs ==
    {scheme \o label \o rest :
        scheme \in {<< >>, S_https_scheme},
        label \in Strings({"h", "t", "p", "9", "-"}, MaxLabel) \ {<< >>},
        rest \in {S_atlassian_net, S_example_com, S_atlassian_net \o S_example_com,
                  S_example_com \o <<"/">> \o S_atlassian_net,
                  S_atlassian_net \o <<"/">>, S_atlassian_net \o <<":","8","0">>}}

EmailInputs == Strings({"a", "B", "@", "."}, MaxEmailLen)

FieldInputs(validator_name) ==
    IF validator_name = "email" THEN EmailInputs ELSE UrlInputs

InitFieldValidators ==
    /\ pc = "idle"
    /\ os_environ = EmptyDict
    /\ ca_files = {}
    /\ fs = EmptyDict
    /\ flags = NoFlags
    /\ cli_tools = {}
    /\ now = 0
    /\ Fresh

\* One call VALIDATORS[validator_name](value).
ValidateField ==
    /\ pc = "idle"
    /\ pc' = "validated"
    /\ \E validator_name \in {"atlassian_url", "email"} :
         \E value \in FieldInputs(validator_name) :
           /\ f_call' = [validator |-> validator_name, value |-> value]
           /\ f_result' = RunValidator(validator_name, value)
    /\ UNCHANGED <<exit_code, fs, world, resolver, orchestrator, collector, v_call, v_result>>

NextFieldValidators == ValidateField

SpecFieldValidators == InitFieldValidators /\ [][NextFieldValidators]_vars

(***************************************************************************)
(* credentials.py: collect_credentials, one prompt at a time.              *)
(***************************************************************************)
\* env_file.resolve_env_var(var_name, sources): the value of the first source,
\* in priority order, that holds a non-empty value for the variable, with the
\* label of that source; the empty value when there is none.
RECURSIVE ResolveFrom(_, _, _)
ResolveFrom(var_name, srcs, i) ==
    IF i > Len(srcs) THEN [value |-> << >>, label |-> ""]
    ELSE IF Get(srcs[i].env, var_name) # << >>
    THEN [value |-> srcs[i].env[var_name], label |-> srcs[i].label]
    ELSE ResolveFrom(var_name, srcs, i + 1)

resolve_env_var(var_name, srcs) == ResolveFrom(var_name, srcs, 1)

\* The sources are not consulted: every field is prompted for.
SetInSources_Never(var_name, srcs) == FALSE

\* Lines 191-193: the field is taken from a source instead of prompted.
SetInSources(var_name, srcs) ==
    srcs # << >> /\ resolve_env_var(var_name, srcs).value # << >>

\* d[k] = v
Put(d, k, v) == [x \in DOMAIN d \cup {k} |-> IF x = k THEN v ELSE d[x]]

\* One pass of the loop that breaks with the answer as it was typed.
PromptPass_Raw(prompt_config, existing, var_name, answer) ==
    [accepted |-> answer # << >>, value |-> answer, error |-> ""]

\* One pass of the loop that breaks with the value the validator rejected.
PromptPass_AcceptInvalid(prompt_config, existing, var_name, answer) ==
    LET entered == IF answer = << >> THEN prompt_config.default ELSE answer
    IN  IF entered = << >> /\ ~prompt_config.optional
        THEN [accepted |-> FALSE, value |-> << >>, error |-> "Value required"]
        ELSE IF entered # << >> /\ prompt_config.validator # "none"
                  /\ RunValidator(prompt_config.validator, entered).valid
        THEN [accepted |-> TRUE, value |-> RunValidator(prompt_config.validator, entered).result,
              error |-> ""]
        ELSE [accepted |-> TRUE, value |-> entered, error |-> ""]

\* One pass of the loop that breaks with an empty value for a required field.
PromptPass_AllowEmpty(prompt_config, existing, var_name, answer) ==
    LET entered == IF answer = << >> THEN prompt_config.default ELSE answer
    IN  IF entered # << >> /\ prompt_config.validator # "none"
        THEN LET checked == RunValidator(prompt_config.validator, entered)
             IN  [accepted |-> checked.valid, value |-> checked.result, error |-> checked.error]
        ELSE [accepted |-> TRUE, value |-> entered, error |-> ""]

\* One pass of the "while True" loop of lines 226-254 for the raw input answer:
\* accepted tells whether the loop breaks, value is what it breaks with.
PromptPass(prompt_config, existing, var_name, answer) ==
    LET default == IF Get(existing, var_name) # << >> THEN Get(existing, var_name)
                   ELSE prompt_config.default
        entered == IF answer = << >> THEN default ELSE answer
        value == IF entered = << >> /\ prompt_config.optional /\ prompt_config.default # << >>
                 THEN prompt_config.default
                 ELSE entered
    IN  IF value = << >> /\ ~prompt_config.optional
        THEN [accepted |-> FALSE, value |-> << >>, error |-> "Value required"]
        ELSE IF value # << >> /\ prompt_config.validator # "none"
        THEN LET checked == RunValidator(prompt_config.validator, value)
             IN  [accepted |-> checked.valid, value |-> checked.result, error |-> checked.error]
        ELSE [accepted |-> TRUE, value |-> value, error |-> ""]

\* Lines 256-257 without the test: the value is stored even when empty.
AddCollected_Always(d, var_name, value) == Put(d, var_name, value)

\* Lines 256-257: only non-empty values are added.
AddCollected(d, var_name, value) == IF value # << >> THEN Put(d, var_name, value) ELSE d

(***************************************************************************)
(* main.py: the orchestrator.                                              *)
(***************************************************************************)

\* What the operator types.
S_mycompany == <<"m","y","c","o","m","p","a","n","y">> \o S_atlassian_net
S_user_email == <<"u","s","e","r","@","c","o",".","c","o","m">>
S_tok123 == <<"t","o","k","1","2","3">>
S_keychain == <<"$","(","k","c",")">>

Answers == {<< >>, S_mycompany, S_user_email, S_tok123}

\* The answers the operator means to give to the prompt of a field.
Intended(var_name) ==
    LET kind == CHOOSE v \in {"atlassian_url", "url", "email", "none"} :
                  \E p \in PlatformNames :
                    /\ var_name \in DOMAIN PLATFORM_CONFIGS[p].prompts
                    /\ PLATFORM_CONFIGS[p].prompts[var_name].validator = v
    IN  CASE var_name = "GITLAB_HOST" -> {<< >>, S_mycompany}
          [] kind \in {"atlassian_url", "url"} -> {S_mycompany}
          [] kind = "email" -> {S_user_email}
          [] OTHER -> {S_tok123}

\* The outcomes of the network calls made in a run of the wizard.
WizardOutcomes == {Response(200, "named"), Response(401, "none"), Raised("Timeout")}
WizardNets(platform) == [1..MaxRequests(platform) -> WizardOutcomes]

\* The result of a validate_credentials call of main, without the request log.
Validation(site, platform, given, result) ==
    [platform |-> platform, site |-> site,
     call |-> validate_credentials_call(platform, given),
     success |-> result.success, message |-> result.message]

\* validate_existing_config, lines 127-141, for one configured platform.
ValidateExistingConfig ==
    /\ pc = "detected"
    /\ LET todo == SelectSeq(PlatformKeys(configured),
                             LAMBDA p : p \notin DOMAIN validation_status)
       IN  IF todo = << >>
           THEN /\ pc' = "mode"
                /\ UNCHANGED <<validation_status, last_validation>>
           ELSE \E net \in WizardNets(todo[1]) :
                  LET result == validate_credentials(todo[1], configured[todo[1]], net,
                                                     os_environ, ca_files)
                  IN  /\ validation_status' =
                            Put(validation_status, todo[1],
                                [valid |-> result.success, message |-> result.message])
                      /\ last_validation' =
                            Validation("existing", todo[1], configured[todo[1]], result)
                      /\ pc' = pc
    /\ UNCHANGED <<exit_code, fs, world, resolver, collector, validator, platforms, idx,
                   credentials, cred_order, reuse_atlassian, continue_asked, to_install,
                   pip_log, plugin_log>>

\* show_validation_results without the "No platforms configured" return.
show_validation_results_AllValid(status) ==
    \A p \in DOMAIN status : status[p].valid

\* show_validation_results: True if some platform is configured and every
\* configured platform is valid.
show_validation_results(status) ==
    LET all_valid == \A p \in DOMAIN status : status[p].valid
        any_configured == \E p \in PlatformNames : p \in DOMAIN status
    IN  IF ~any_configured THEN FALSE ELSE all_valid

\* The process ends with status 0 whatever code is given.
Exit_Success(code) ==
    /\ pc' = "done"
    /\ exit_code' = 0

Exit(code) ==
    /\ pc' = "done"
    /\ exit_code' = code

\* main(), lines 541-544, without the sys.exit of line 544: the run goes on
\* to the install steps.
ValidateOnly_FallsThrough ==
    /\ pc = "mode"
    /\ flags.VALIDATE_ONLY
    /\ pc' = "install_packages"
    /\ to_install' = PlatformKeys(configured)
    /\ UNCHANGED <<exit_code, fs, world, resolver, collector, validator, validation_status,
                   platforms, idx, credentials, cred_order, reuse_atlassian, last_validation,
                   continue_asked, pip_log, plugin_log>>

\* main(), lines 541-544: --validate-only.
ValidateOnly ==
    /\ pc = "mode"
    /\ flags.VALIDATE_ONLY
    /\ Exit(IF show_validation_results(validation_status) THEN 0 ELSE 1)
    /\ UNCHANGED <<fs, world, resolver, orchestrator, collector, validator>>

\* main(), lines 546-562: --skip-credentials, up to the install steps.
SkipCredentials ==
    /\ pc = "mode"
    /\ ~flags.VALIDATE_ONLY
    /\ flags.SKIP_CREDENTIALS
    /\ IF PlatformKeys(configured) = << >>
       THEN /\ Exit(1)
            /\ UNCHANGED to_install
       ELSE /\ pc' = "install_packages"
            /\ to_install' = PlatformKeys(configured)
            /\ UNCHANGED exit_code
    /\ UNCHANGED <<fs, world, resolver, collector, validator, validation_status, platforms, idx,
                   credentials, cred_order, reuse_atlassian, last_validation, continue_asked,
                   pip_log, plugin_log>>

\* main(), lines 564-574: stdin is no terminal.
NonInteractive ==
    /\ pc = "mode"
    /\ ~flags.VALIDATE_ONLY
    /\ ~flags.SKIP_CREDENTIALS
    /\ ~flags.IS_INTERACTIVE
    /\ Exit(1)
    /\ UNCHANGED <<fs, world, resolver, orchestrator, collector, validator>>

\* Lines 209-213 and 310-314: the names of PLATFORMS_ARG that PLATFORM_CONFIGS
\* knows.  PLATFORMS_ARG is held split at the commas, stripped and lower-cased.
PlatformsFromArg == SelectSeq(flags.PLATFORMS_ARG, LAMBDA p : p \in PlatformNames)

Option(action, names) == [action |-> action, platforms |-> names]

\* select_platforms_with_status, lines 243-271: the menu, option "1" first.
StatusMenu(conf, status) ==
    LET valid_platforms == SelectSeq(PlatformKeys(status), LAMBDA p : status[p].valid)
        invalid_platforms == SelectSeq(PlatformKeys(status), LAMBDA p : ~status[p].valid)
        unconfigured == SelectSeq(PlatformOrder, LAMBDA p : p \notin DOMAIN conf)
    IN  (IF valid_platforms # << >> THEN <<Option("keep", valid_platforms)>> ELSE << >>)
          \o [i \in 1..Len(invalid_platforms) |-> Option("reconfigure", <<invalid_platforms[i]>>)]
          \o [i \in 1..Len(unconfigured) |-> Option("add", <<unconfigured[i]>>)]
          \o (IF conf # EmptyDict THEN <<Option("reconfigure_all", PlatformKeys(conf))>>
              ELSE << >>)

\* select_platforms_with_status: every (platforms, skip_creds) it can return.
select_platforms_with_status(conf, status) ==
    IF PlatformsFromArg # << >> THEN {Option("configure", PlatformsFromArg)}
    ELSE IF conf # EmptyDict /\ \A p \in DOMAIN status : ~status[p].valid
    THEN {Option("reconfigure_all", PlatformKeys(conf))}
    ELSE Range(StatusMenu(conf, status))

\* select_platforms: every list it can return.
select_platforms ==
    IF PlatformsFromArg # << >> THEN {Option("configure", PlatformsFromArg)}
    ELSE {Option("configure", <<"confluence", "jira">>),
          Option("configure", <<"confluence", "jira", "splunk", "gitlab">>),
          Option("configure", <<"confluence">>),
          Option("configure", <<"jira">>),
          Option("configure", <<"splunk">>),
          Option("configure", <<"gitlab">>)}

\* main(), lines 576-594: the platforms are selected.
SelectPlatforms ==
    /\ pc = "mode"
    /\ ~flags.VALIDATE_ONLY
    /\ ~flags.SKIP_CREDENTIALS
    /\ flags.IS_INTERACTIVE
    /\ \E choice \in (IF configured # EmptyDict
                      THEN select_platforms_with_status(configured, validation_status)
                      ELSE select_platforms) :
         /\ Len(choice.platforms) <= MaxPlatforms
         /\ platforms' = choice.platforms
         /\ IF choice.action = "keep"
            THEN /\ pc' = "install_packages"
                 /\ to_install' = choice.platforms
                 /\ idx' = idx
            ELSE /\ pc' = "platform"
                 /\ idx' = 1
                 /\ to_install' = to_install
    /\ UNCHANGED <<exit_code, fs, world, resolver, collector, validator, validation_status,
                   credentials, cred_order, reuse_atlassian, last_validation, continue_asked,
                   pip_log, plugin_log>>

\* check_platform_prerequisites, lines 349-360.
check_platform_prerequisites(platform, tools) ==
    LET config == PLATFORM_CONFIGS[platform]
    IN  ~(config.installation_type = "cli" /\ config.cli_name # "" /\ config.cli_name \notin tools)

ThisPlatform == platforms[idx]

InLoop == pc = "platform" /\ idx <= Len(platforms)

\* credentials[platform] = value, with the insertion order of the keys.
Store(platform, value) ==
    /\ credentials' = Put(credentials, platform, value)
    /\ cred_order' = IF platform \in DOMAIN credentials THEN cred_order
                     ELSE Append(cred_order, platform)

\* The missing CLI ends the run instead of skipping the platform.
SkipWithoutCli_HardFailure ==
    /\ InLoop
    /\ ~check_platform_prerequisites(ThisPlatform, cli_tools)
    /\ Exit(1)
    /\ UNCHANGED <<fs, world, resolver, collector, validator, orchestrator>>

\* Lines 602-608: the CLI is missing and the operator continues without the platform.
SkipWithoutCli ==
    /\ InLoop
    /\ ~check_platform_prerequisites(ThisPlatform, cli_tools)
    /\ idx' = idx + 1
    /\ UNCHANGED <<pc, exit_code, fs, world, resolver, collector, validator, validation_status,
                   platforms, credentials, cred_order, reuse_atlassian, last_validation,
                   continue_asked, to_install, pip_log, plugin_log>>

\* Line 611.
CanReuseAtlassian ==
    /\ ThisPlatform = "jira"
    /\ \E i \in 1..Len(platforms) : platforms[i] = "confluence"
    /\ "confluence" \in DOMAIN credentials

\* collect_credentials is entered: lines 184-185.
EnterCollect ==
    /\ pc' = "collect"
    /\ creds' = EmptyDict
    /\ field' = 1
    /\ prompted' = << >>

\* Lines 611-630: the Confluence credentials are offered for JIRA.
ReuseAtlassian ==
    /\ InLoop
    /\ CanReuseAtlassian
    /\ reuse_atlassian # "False"
    /\ \E answer \in (IF reuse_atlassian = "None" THEN BOOLEAN ELSE {TRUE}) :
         IF ~answer
         THEN /\ reuse_atlassian' = "False"
              /\ EnterCollect
              /\ UNCHANGED <<idx, credentials, cred_order, last_validation>>
         ELSE \E net \in WizardNets(ThisPlatform) :
                LET copied == credentials["confluence"]
                    result == validate_credentials(ThisPlatform, copied, net, os_environ, ca_files)
                IN  /\ last_validation' = Validation("reuse", ThisPlatform, copied, result)
                    /\ IF result.success
                       THEN /\ Store(ThisPlatform, copied)
                            /\ reuse_atlassian' = "True"
                            /\ idx' = idx + 1
                            /\ creds' = copied
                            /\ UNCHANGED <<pc, field, prompted>>
                       ELSE /\ reuse_atlassian' = "False"
                            /\ EnterCollect
                            /\ UNCHANGED <<idx, credentials, cred_order>>
    /\ UNCHANGED <<exit_code, fs, world, resolver, validator, validation_status, platforms,
                   continue_asked, to_install, pip_log, plugin_log, strays>>

\* Line 633: collect_credentials is called for the platform.  The operator may
\* have declined to continue without the platform's CLI.
BeginCollect ==
    /\ InLoop
    /\ ~(CanReuseAtlassian /\ reuse_atlassian # "False")
    /\ EnterCollect
    /\ UNCHANGED <<exit_code, fs, world, resolver, validator, orchestrator, strays>>

Collecting == pc = "collect" /\ field <= Len(PLATFORM_CONFIGS[ThisPlatform].prompt_order)

ThisField == PLATFORM_CONFIGS[ThisPlatform].prompt_order[field]

\* Lines 191-202: the field is set in a source.
CollectFromSource ==
    /\ Collecting
    /\ SetInSources(ThisField, sources)
    /\ creds' = Put(creds, ThisField, resolve_env_var(ThisField, sources).value)
    /\ field' = field + 1
    /\ UNCHANGED <<pc, exit_code, fs, world, resolver, validator, orchestrator, prompted, strays>>

\* Lines 203-257: the operator answers one prompt for the field.
CollectPrompt ==
    /\ Collecting
    /\ ~SetInSources(ThisField, sources)
    /\ \E answer \in Answers :
         LET pass == PromptPass(PLATFORM_CONFIGS[ThisPlatform].prompts[ThisField],
                                existing_env, ThisField, answer)
             stray == answer \notin Intended(ThisField)
         IN  /\ stray => strays < MaxStray
             /\ strays' = IF stray THEN strays + 1 ELSE strays
             /\ prompted' = Append(prompted, [var |-> ThisField, answer |-> answer])
             /\ IF pass.accepted
                THEN /\ creds' = AddCollected(creds, ThisField, pass.value)
                     /\ field' = field + 1
                ELSE UNCHANGED <<creds, field>>
    /\ UNCHANGED <<pc, exit_code, fs, world, resolver, validator, orchestrator>>

\* The credentials are kept whatever the operator answers.
Accepted_Always(success, continue_anyway) == TRUE

\* Lines 639-647: credentials[platform] = creds is reached on success, and on
\* failure when the operator answers "Continue anyway?" with yes.
Accepted(success, continue_anyway) == success \/ continue_anyway

\* Lines 635-649: the collected credentials are tested.
ValidateCollected ==
    /\ pc = "collect"
    /\ ~Collecting
    /\ \E net \in WizardNets(ThisPlatform) :
         LET result == validate_credentials(ThisPlatform, creds, net, os_environ, ca_files)
         IN  /\ last_validation' = Validation("collected", ThisPlatform, creds, result)
             /\ \E continue_anyway \in (IF result.success THEN {FALSE} ELSE BOOLEAN) :
                  /\ continue_asked' = IF result.success THEN continue_asked
                                       ELSE Put(continue_asked, ThisPlatform, continue_anyway)
                  /\ IF Accepted(result.success, continue_anyway)
                     THEN Store(ThisPlatform, creds)
                     ELSE UNCHANGED <<credentials, cred_order>>
    /\ pc' = "platform"
    /\ idx' = idx + 1
    /\ UNCHANGED <<exit_code, fs, world, resolver, collector, validator, validation_status,
                   platforms, reuse_atlassian, to_install, pip_log, plugin_log>>

\* Lines 652-654.
NoPlatformsConfigured ==
    /\ pc = "platform"
    /\ idx > Len(platforms)
    /\ credentials = EmptyDict
    /\ Exit(1)
    /\ UNCHANGED <<fs, world, resolver, orchestrator, collector, validator>>

\* The backup path save_env_file uses at the given time.
BackupPath(path, stamp) == path \o ".bak." \o ToString(stamp)

\* The backup of ~/.env a run of the wizard makes.
BACKUP_FILE == BackupPath(ENV_FILE, 0)

\* env_file.save_env_file(path, env): the file holds env afterwards; a file
\* that existed is first copied to the backup path.
save_env_file(files, path, env, stamp) ==
    IF path \in DOMAIN files
    THEN Put(Put(files, BackupPath(path, stamp), files[path]), path, env)
    ELSE Put(files, path, env)

\* Lines 661-665 for one platform's creds: a key of ~/.env that holds a value is
\* left as it is.
RECURSIVE KeepOrWrite(_, _, _, _)
KeepOrWrite(home_env, new_env_vars, given, keys) ==
    IF keys = {} THEN new_env_vars
    ELSE LET key == CHOOSE k \in keys : TRUE
         IN  KeepOrWrite(home_env,
                         IF key \notin DOMAIN home_env \/ home_env[key] = << >>
                         THEN Put(new_env_vars, key, given[key])
                         ELSE new_env_vars,
                         given, keys \ {key})

\* Every collected key is written, whatever ~/.env holds.
NewEnvVars_Overwrite(home_env, collected, order) ==
    LET all == UNION {DOMAIN collected[p] : p \in DOMAIN collected}
    IN  [k \in DOMAIN home_env \cup all |->
            IF k \in all THEN collected[CHOOSE p \in DOMAIN collected : k \in DOMAIN collected[p]][k]
            ELSE home_env[k]]

\* new_env_vars holds the collected keys only: the other keys of ~/.env are
\* not copied.
NewEnvVars_DropUnrelated(home_env, collected, order) ==
    LET all == UNION {DOMAIN collected[p] : p \in DOMAIN collected}
    IN  [k \in all |->
            IF Get(home_env, k) # << >> THEN home_env[k]
            ELSE collected[CHOOSE p \in DOMAIN collected : k \in DOMAIN collected[p]][k]]

\* new_env_vars built from an empty dict in place of home_env.copy().
NewEnvVars_FromEmpty(home_env, collected, order) ==
    LET all == UNION {DOMAIN collected[p] : p \in DOMAIN collected}
        written == {k \in all : Get(home_env, k) = << >>}
    IN  [k \in written |->
            collected[CHOOSE p \in DOMAIN collected : k \in DOMAIN collected[p]][k]]

\* Lines 658-665: new_env_vars, the platforms taken in the order of credentials.
RECURSIVE NewEnvVarsFrom(_, _, _, _, _)
NewEnvVarsFrom(home_env, new_env_vars, collected, order, i) ==
    IF i > Len(order) THEN new_env_vars
    ELSE NewEnvVarsFrom(home_env,
                        KeepOrWrite(home_env, new_env_vars, collected[order[i]],
                                    DOMAIN collected[order[i]]),
                        collected, order, i + 1)

NewEnvVars(home_env, collected, order) == NewEnvVarsFrom(home_env, home_env, collected, order, 1)

\* Lines 656-673, with the installs given the selected platforms instead of
\* list(credentials.keys()).
SaveConfiguration_InstallSelected ==
    /\ pc = "platform"
    /\ idx > Len(platforms)
    /\ credentials # EmptyDict
    /\ fs' = save_env_file(fs, ENV_FILE,
                           NewEnvVars(load_env_file(fs, ENV_FILE), credentials, cred_order), now)
    /\ to_install' = platforms
    /\ pc' = "install_packages"
    /\ UNCHANGED <<exit_code, world, resolver, collector, validator, validation_status, platforms,
                   idx, credentials, cred_order, reuse_atlassian, last_validation, continue_asked,
                   pip_log, plugin_log>>

\* Lines 656-673.
SaveConfiguration ==
    /\ pc = "platform"
    /\ idx > Len(platforms)
    /\ credentials # EmptyDict
    /\ fs' = save_env_file(fs, ENV_FILE,
                           NewEnvVars(load_env_file(fs, ENV_FILE), credentials, cred_order), now)
    /\ to_install' = cred_order
    /\ pc' = "install_packages"
    /\ UNCHANGED <<exit_code, world, resolver, collector, validator, validation_status, platforms,
                   idx, credentials, cred_order, reuse_atlassian, last_validation, continue_asked,
                   pip_log, plugin_log>>

\* install_python_packages, lines 391-396.
packages ==
    [confluence |-> "confluence-as>=1.1.0", jira |-> "jira-as>=1.0.0", splunk |-> "splunk-as>=1.2.0"]

\* install_python_packages: the platforms pip is run for.
PipPlatforms(names) ==
    SelectSeq(names, LAMBDA p : PLATFORM_CONFIGS[p].installation_type # "cli"
                                  /\ p \in DOMAIN packages)

Attempt(name, result) == [name |-> name, result |-> result]

\* What subprocess.run([pip, "install", ...], check=True) does: it returns
\* ("OK"), raises CalledProcessError because pip exited non-zero ("FAILED"),
\* or raises OSError because pip could not be started ("raised").
PipOutcomes == {"OK", "FAILED", "raised"}

\* install_python_packages, lines 402-424: the loop from package i on.  The
\* try block catches CalledProcessError only; any other exception leaves the
\* loop and the function.
RECURSIVE PipLoop(_, _, _, _)
PipLoop(todo, run, i, log) ==
    IF i > Len(todo) THEN [log |-> log, raised |-> FALSE]
    ELSE LET tried == Append(log, Attempt(packages[todo[i]], run[i]))
         IN  IF run[i] = "raised" THEN [log |-> tried, raised |-> TRUE]
             ELSE PipLoop(todo, run, i + 1, tried)

\* install_python_packages(list(credentials.keys())); an exception it lets
\* through ends main() with a traceback and exit status 1.
InstallPythonPackages ==
    /\ pc = "install_packages"
    /\ LET todo == PipPlatforms(to_install)
       IN  \E run \in [1..Len(todo) -> PipOutcomes] :
             LET installed == PipLoop(todo, run, 1, << >>)
             IN  /\ pip_log' = installed.log
                 /\ IF installed.raised
                    THEN Exit(1)
                    ELSE pc' = "install_plugins" /\ UNCHANGED exit_code
    /\ UNCHANGED <<fs, world, resolver, collector, validator, validation_status,
                   platforms, idx, credentials, cred_order, reuse_atlassian, last_validation,
                   continue_asked, to_install, plugin_log>>

\* install_claude_plugins, lines 452-457.
plugin_names ==
    [confluence |-> "confluence-assistant-skills", jira |-> "jira-assistant-skills",
     splunk |-> "splunk-assistant-skills", gitlab |-> "gitlab-assistant-skills"]

\* install_claude_plugins, lines 429-475.  The claude CLI tells whether the
\* marketplace is listed and which plugins are installed, and each command
\* it is given succeeds or fails.
InstallClaudePlugins ==
    /\ pc = "install_plugins"
    /\ IF flags.SKIP_PLUGINS \/ "claude" \notin cli_tools
       THEN plugin_log' = << >>
       ELSE \E marketplace \in {"listed", "OK", "FAILED"} :
              IF marketplace = "FAILED"
              THEN plugin_log' = <<Attempt("as-plugins marketplace", "FAILED")>>
              ELSE \E outcome \in [Range(to_install) -> {"already installed", "OK", "FAILED"}] :
                     plugin_log' =
                        (IF marketplace = "listed" THEN << >>
                         ELSE <<Attempt("as-plugins marketplace", "OK")>>)
                        \o [i \in 1..Len(to_install) |->
                              Attempt(plugin_names[to_install[i]], outcome[to_install[i]])]
    /\ pc' = "summary"
    /\ UNCHANGED <<exit_code, fs, world, resolver, collector, validator, validation_status,
                   platforms, idx, credentials, cred_order, reuse_atlassian, last_validation,
                   continue_asked, to_install, pip_log>>

\* show_summary, and main returns.
ShowSummary ==
    /\ pc = "summary"
    /\ Exit(0)
    /\ UNCHANGED <<fs, world, resolver, orchestrator, collector, validator>>

(***************************************************************************)
(* Properties of the source resolver, checked under SpecResolver.          *)
(***************************************************************************)
\* The index of the earliest-listed source that defines field k.
EarliestDefining(srcs, k) ==
    CHOOSE i \in 1..Len(srcs) :
        /\ k \in DOMAIN srcs[i].env
        /\ \A j \in 1..(i - 1) : k \notin DOMAIN srcs[j].env

\* The labels of the sources are in priority order: shell, primary file,
\* secondary file.
InPriorityOrder(srcs) ==
    \A i, j \in 1..Len(srcs) :
        i < j => \/ srcs[i].label = "shell"
                 \/ srcs[i].label = "~/.env" /\ srcs[j].label = "as-demo/secrets/.env"

\* C1: the merged mapping holds exactly the fields some source defines, and its
\* value for each field is the value given by the earliest-listed source that
\* defines the field.
C1_MergePriorityStable ==
    pc = "detected" =>
        /\ InPriorityOrder(sources)
        /\ DOMAIN existing_env = UNION {DOMAIN sources[i].env : i \in 1..Len(sources)}
        /\ \A k \in DOMAIN existing_env :
             existing_env[k] = sources[EarliestDefining(sources, k)].env[k]

\* C1's case: a field defined by two sources with different values, merged.
C1_Witness ==
    /\ pc = "detected"
    /\ \E i, j \in 1..Len(sources) :
         /\ i < j
         /\ \E k \in DOMAIN sources[i].env \cap DOMAIN sources[j].env :
              /\ sources[i].env[k] # sources[j].env[k]
              /\ existing_env[k] = sources[i].env[k]
         /\ \E k \in DOMAIN sources[j].env : k \notin DOMAIN sources[i].env

\* C3: a platform is reported configured if and only if every one of its
\* required fields has a non-empty value in the merged view.
C3_ConfiguredIffAllRequired ==
    pc = "detected" =>
        \A p \in PlatformNames :
            p \in DOMAIN configured <=>
                \A var \in Range(PLATFORM_CONFIGS[p].required_vars) :
                    var \in DOMAIN existing_env /\ existing_env[var] # << >>

\* C3's case: only a strict, non-empty subset of a platform's required fields
\* is non-empty in the merged view, and the platform is not configured.
C3_Witness ==
    /\ pc = "detected"
    /\ \E p \in PlatformNames :
         /\ p \notin DOMAIN configured
         /\ \E a, b \in Range(PLATFORM_CONFIGS[p].required_vars) :
              /\ Get(existing_env, a) # << >>
              /\ b \in DOMAIN existing_env
              /\ existing_env[b] = << >>

(***************************************************************************)
(* Properties of the live validators, checked under SpecValidators.        *)
(***************************************************************************)
Returned(names) == pc = "returned" /\ v_call.platform \in names

Endpoints(platform) ==
    IF platform = "confluence" THEN ConfluenceEndpoints ELSE JiraEndpoints

Answered(req, status) == req.outcome.kind = "response" /\ req.outcome.status = status

\* A 200 whose body was read as the JSON object the validator expects.
AnsweredReadable200(req) == Answered(req, 200) /\ req.outcome.body # "invalid"

\* The endpoints were requested in their declared order, each at most once.
InDeclaredOrder(platform, requests) ==
    /\ Len(requests) <= Len(Endpoints(platform))
    /\ \A i \in 1..Len(requests) : requests[i].url.path = Endpoints(platform)[i].path

\* An endpoint answering 404 is followed by a request to the next endpoint.
NextAfter404(platform, requests) ==
    \A i \in 1..Len(requests) :
        Answered(requests[i], 404) /\ i < Len(Endpoints(platform)) => Len(requests) > i

C5_401Fatal ==
    Returned({"confluence", "jira"}) =>
        \A i \in 1..Len(v_result.requests) :
            Answered(v_result.requests[i], 401) =>
                /\ i = Len(v_result.requests)
                /\ ~v_result.success
                /\ v_result.message = "Invalid credentials (401 Unauthorized)"

\* C5's case: a 401 from an endpoint after the first.
C5_Witness ==
    /\ Returned({"confluence"})
    /\ Len(v_result.requests) = 2
    /\ Answered(v_result.requests[1], 403)
    /\ Answered(v_result.requests[2], 401)
    /\ Len(v_call.net) = 3

AccessDenied == "Access denied - check API token permissions"

\* C6 as stated: for Confluence a 403 is followed by the next endpoint, and the
\* result is the access-denied failure only if every endpoint answered 403.
C6_Original ==
    Returned({"confluence"}) =>
        LET requests == v_result.requests
        IN  /\ \A i \in 1..Len(requests) :
                 Answered(requests[i], 403) /\ i < Len(ConfluenceEndpoints) => Len(requests) > i
            /\ v_result.message = AccessDenied =>
                 /\ Len(requests) = Len(ConfluenceEndpoints)
                 /\ \A i \in 1..Len(requests) : Answered(requests[i], 403)

\* The status code of the latest response among the first n calls, 0 without one.
RECURSIVE LastStatusReceived(_, _)
LastStatusReceived(requests, n) ==
    IF n = 0 THEN 0
    ELSE IF requests[n].outcome.kind = "response" THEN requests[n].outcome.status
    ELSE LastStatusReceived(requests, n - 1)

\* The call ended validation: a readable 200, a 401, a timeout or a connection
\* failure.
EndsConfluence(req) ==
    \/ AnsweredReadable200(req)
    \/ Answered(req, 401)
    \/ req.outcome.kind \in {"Timeout", "ConnectionError", "SSLError"}

\* C6, amended: for Confluence a 403 is followed by the next endpoint, and the
\* result is the access-denied failure exactly when every endpoint was
\* requested, none of them ended validation, and the latest status code
\* received is 403 (earlier endpoints may have answered another status).
C6_AccessDeniedWhenLast403 ==
    Returned({"confluence"}) =>
        LET requests == v_result.requests
        IN  /\ \A i \in 1..Len(requests) :
                 Answered(requests[i], 403) /\ i < Len(ConfluenceEndpoints) => Len(requests) > i
            /\ v_result.message = AccessDenied <=>
                 /\ Len(requests) = Len(ConfluenceEndpoints)
                 /\ \A i \in 1..Len(requests) : ~EndsConfluence(requests[i])
                 /\ LastStatusReceived(requests, Len(requests)) = 403

\* C6's case: every endpoint answered 403 and the result is access denied.
C6_Witness ==
    /\ Returned({"confluence"})
    /\ Len(v_result.requests) = 3
    /\ \A i \in 1..3 : Answered(v_result.requests[i], 403)
    /\ v_result.message = AccessDenied
    /\ ~v_result.success

\* C7: for every platform name and every outcome of every call, validate
\* returns a (success, message) pair and raises nothing, and success is true
\* only if some request answered HTTP 200.
C7_NeverRaises ==
    pc = "returned" =>
        /\ v_result.raised = ""
        /\ v_result.success \in BOOLEAN
        /\ v_result.message # ""
        /\ v_result.success =>
             \E i \in 1..Len(v_result.requests) : Answered(v_result.requests[i], 200)

\* C7's case: a call of a validator raised an exception that is neither a
\* timeout nor a connection failure on its last request, and validate returned
\* a failure.
C7_Witness ==
    /\ Returned({"splunk"})
    /\ Len(v_result.requests) = 2
    /\ v_result.requests[2].outcome.kind = "Exception"
    /\ ~v_result.success
    /\ v_result.message # ""

\* C8: a timeout or a connection failure at any endpoint ends validation at
\* once with its own message; no further endpoint is tried and the failed
\* request is not repeated.
C8_NetworkFailureShortCircuits ==
    Returned({"confluence", "jira"}) =>
        LET requests == v_result.requests
        IN  /\ InDeclaredOrder(v_call.platform, requests)
            /\ \A i \in 1..Len(requests) :
                 /\ requests[i].outcome.kind = "Timeout" =>
                      /\ i = Len(requests)
                      /\ ~v_result.success
                      /\ v_result.message = "Connection timed out"
                 /\ requests[i].outcome.kind \in {"ConnectionError", "SSLError"} =>
                      /\ i = Len(requests)
                      /\ ~v_result.success
                      /\ v_result.message = "Could not connect to server"

\* C8's case: a timeout at the first of several endpoints.
C8_Witness ==
    /\ Returned({"confluence", "jira"})
    /\ Len(v_result.requests) = 1
    /\ v_result.requests[1].outcome.kind = "Timeout"
    /\ v_result.message = "Connection timed out"

(***************************************************************************)
(* The wizard, from the start of main to its exit.                         *)
(***************************************************************************)
\* The value a source holds for a field of a platform.
Plain(var_name) ==
    LET kinds == {PLATFORM_CONFIGS[p].prompts[var_name].validator :
                    p \in {q \in PlatformNames : var_name \in DOMAIN PLATFORM_CONFIGS[q].prompts}}
    IN  IF var_name = "GITLAB_HOST" THEN S_gitlab_com
        ELSE IF kinds \subseteq {"atlassian_url", "url"} THEN NormalizeUrl(S_mycompany)
        ELSE IF kinds = {"email"} THEN S_user_email
        ELSE S_tok123

Hidden(platform) ==
    {v \in Range(PLATFORM_CONFIGS[platform].required_vars) :
        PLATFORM_CONFIGS[platform].prompts[v].hidden}

\* What the shell holds for the platform: nothing, or every required field.
ShellChoices(platform) ==
    {EmptyDict, [v \in Range(PLATFORM_CONFIGS[platform].required_vars) |-> Plain(v)]}

\* What ~/.env holds for the platform: every required field, the secret as a
\* keychain lookup or as an empty value.
HomeChoices(platform) ==
    {[v \in Range(PLATFORM_CONFIGS[platform].required_vars) |->
        IF v \in Hidden(platform) THEN secret ELSE Plain(v)] : secret \in {S_keychain, << >>}}

\* How the wizard is started: its command line, and the CLI tools on PATH.
Started(given, tools) == [flags |-> given, cli_tools |-> tools]

StartChoices ==
    {Started(NoFlags, {"glab", "claude"}),
     Started([NoFlags EXCEPT !.VALIDATE_ONLY = TRUE], {"glab", "claude"}),
     Started([NoFlags EXCEPT !.SKIP_CREDENTIALS = TRUE], {"glab", "claude"}),
     Started([NoFlags EXCEPT !.SKIP_CREDENTIALS = TRUE, !.SKIP_PLUGINS = TRUE], {"glab", "claude"}),
     Started([NoFlags EXCEPT !.IS_INTERACTIVE = FALSE], {"glab", "claude"}),
     Started([NoFlags EXCEPT !.PLATFORMS_ARG = <<"gitlab", "bitbucket">>], {})}

Init ==
    /\ pc = "start"
    /\ Fresh
    /\ \E start \in StartChoices :
         /\ flags = start.flags
         /\ cli_tools = start.cli_tools
    /\ now = 0
    /\ ca_files = {}
    /\ \E p \in PlatformNames :
         /\ os_environ \in ShellChoices(p)
         /\ fs \in {EmptyDict} \cup {[f \in {ENV_FILE} |-> home] : home \in HomeChoices(p)}

Next ==
    \/ DetectExistingConfig
    \/ ValidateExistingConfig
    \/ ValidateOnly
    \/ SkipCredentials
    \/ NonInteractive
    \/ SelectPlatforms
    \/ SkipWithoutCli
    \/ ReuseAtlassian
    \/ BeginCollect
    \/ CollectFromSource
    \/ CollectPrompt
    \/ ValidateCollected
    \/ NoPlatformsConfigured
    \/ SaveConfiguration
    \/ InstallPythonPackages
    \/ InstallClaudePlugins
    \/ ShowSummary

Spec == Init /\ [][Next]_vars

(***************************************************************************)
(* The save step of main, run twice with the same credentials.             *)
(***************************************************************************)
\* The credentials one platform ends the loop of main with: every field of
\* its prompts, the secret in plaintext or as a keychain lookup.
CollectedChoices(platform) ==
    LET fields == Range(PLATFORM_CONFIGS[platform].prompt_order)
    IN  {[v \in fields |-> IF v \in Hidden(platform) THEN secret ELSE Plain(v)] :
            secret \in {S_tok123, S_keychain}}

InitPersist ==
    /\ pc = "persist"
    /\ exit_code = -1
    /\ os_environ = EmptyDict
    /\ ca_files = {}
    /\ flags = NoFlags
    /\ cli_tools = {}
    /\ now = 0
    /\ sources = << >>
    /\ existing_env = EmptyDict
    /\ configured = EmptyDict
    /\ validation_status = EmptyDict
    /\ \E p \in PlatformNames :
         /\ platforms = <<p>>
         /\ cred_order = <<p>>
         /\ \E given \in CollectedChoices(p) : credentials = [q \in {p} |-> given]
         /\ \E home \in Dicts(Range(PLATFORM_CONFIGS[p].prompt_order) \cup {"EDITOR"}, S_keychain),
               present \in SUBSET {ENV_FILE} :
              fs = [path \in present |-> home]
    /\ idx = 2
    /\ reuse_atlassian = "None"
    /\ last_validation = NoValidation
    /\ continue_asked = EmptyDict
    /\ to_install = << >>
    /\ pip_log = << >>
    /\ plugin_log = << >>
    /\ creds = EmptyDict
    /\ field = 0
    /\ prompted = << >>
    /\ strays = 0
    /\ v_call = NoCall
    /\ v_result = NoResult
    /\ f_call = [validator |-> "none", value |-> << >>]
    /\ f_result = Accept(<< >>)

\* main.py, lines 656-669, once and then once more: the clock may have moved
\* to the next timestamp in between, or not.
Persist ==
    /\ pc \in {"persist", "persisted"}
    /\ pc' = IF pc = "persist" THEN "persisted" ELSE "persisted twice"
    /\ \E tick \in {0, 1} :
         /\ now' = now + tick
         /\ fs' = save_env_file(fs, ENV_FILE,
                                NewEnvVars(load_env_file(fs, ENV_FILE), credentials, cred_order),
                                now')
    /\ UNCHANGED <<exit_code, os_environ, ca_files, flags, cli_tools, resolver, orchestrator,
                   collector, validator>>

NextPersist == Persist

SpecPersist == InitPersist /\ [][NextPersist]_vars

(***************************************************************************)
(* The wizard started with --validate-only, over several platforms.        *)
(***************************************************************************)
\* The required fields of the given platforms, the secrets as given.
FieldsOf(names, secret) ==
    [v \in UNION {Range(PLATFORM_CONFIGS[p].required_vars) : p \in names} |->
        IF \E p \in names : v \in Hidden(p) THEN secret ELSE Plain(v)]

InitValidateOnly ==
    /\ pc = "start"
    /\ Fresh
    /\ flags = [NoFlags EXCEPT !.VALIDATE_ONLY = TRUE]
    /\ cli_tools = {"glab", "claude"}
    /\ now = 0
    /\ ca_files = {}
    /\ \E in_shell \in SUBSET PlatformNames : os_environ = FieldsOf(in_shell, S_tok123)
    /\ \E in_home \in SUBSET PlatformNames, secret \in {S_keychain, << >>} :
         fs = IF in_home = {} THEN EmptyDict ELSE [f \in {ENV_FILE} |-> FieldsOf(in_home, secret)]

NextValidateOnly ==
    \/ DetectExistingConfig
    \/ ValidateExistingConfig
    \/ ValidateOnly

SpecValidateOnly == InitValidateOnly /\ [][NextValidateOnly]_vars

(***************************************************************************)
(* The wizard started for one platform, up to the return of                *)
(* collect_credentials, over sources that hold empty and non-empty values. *)
(***************************************************************************)
InitCollector ==
    /\ pc = "start"
    /\ Fresh
    /\ cli_tools = {"glab", "claude"}
    /\ now = 0
    /\ ca_files = {}
    /\ \E p \in PlatformNames :
         LET fields == Range(PLATFORM_CONFIGS[p].prompt_order)
         IN  /\ flags = [NoFlags EXCEPT !.PLATFORMS_ARG = <<p>>]
             /\ os_environ \in Dicts(fields, S_mycompany)
             /\ \E home \in {d \in Dicts(fields, S_keychain) : Cardinality(DOMAIN d) <= 1} :
                  fs = [path \in {ENV_FILE} |-> home]

NextCollector ==
    \/ DetectExistingConfig
    \/ ValidateExistingConfig
    \/ SelectPlatforms
    \/ BeginCollect
    \/ CollectFromSource
    \/ CollectPrompt

SpecCollector == InitCollector /\ [][NextCollector]_vars

(***************************************************************************)
(* The wizard started for GitLab and Splunk, with and without the glab     *)
(* CLI, up to the end of the platform loop.                                *)
(***************************************************************************)
InitPrerequisites ==
    /\ pc = "start"
    /\ Fresh
    /\ now = 0
    /\ ca_files = {}
    /\ fs = EmptyDict
    /\ \E names \in {<<"gitlab", "splunk">>, <<"splunk", "gitlab">>} :
         flags = [NoFlags EXCEPT !.PLATFORMS_ARG = names]
    /\ cli_tools \in {{}, {"glab"}}
    /\ os_environ \in Dicts(Range(PLATFORM_CONFIGS["splunk"].prompt_order), S_mycompany)

NextPrerequisites ==
    \/ DetectExistingConfig
    \/ ValidateExistingConfig
    \/ SelectPlatforms
    \/ SkipWithoutCli
    \/ BeginCollect
    \/ CollectFromSource
    \/ CollectPrompt
    \/ ValidateCollected
    \/ NoPlatformsConfigured

SpecPrerequisites == InitPrerequisites /\ [][NextPrerequisites]_vars

(***************************************************************************)
(* Properties of the wizard.                                               *)
(***************************************************************************)
SavesNow == pc = "platform" /\ pc' = "install_packages"

\* C2: when the wizard saves, every field of the collected credentials is
\* written to ~/.env with the value ~/.env already held for it if that value
\* is non-empty (a keychain lookup $(...) is never replaced by plaintext), and
\* with the collected value only if ~/.env held no value or an empty one.
C2_NonDestructivePersist ==
    [][SavesNow =>
         LET home_env == load_env_file(fs, ENV_FILE)
         IN  /\ ENV_FILE \in DOMAIN fs'
             /\ \A p \in DOMAIN credentials : \A key \in DOMAIN credentials[p] :
                  /\ key \in DOMAIN fs'[ENV_FILE]
                  /\ fs'[ENV_FILE][key] = IF Get(home_env, key) # << >> THEN home_env[key]
                                          ELSE credentials[p][key]]_vars

\* C2: ~/.env held a keychain lookup for a field, plaintext was collected for
\* it, and the wizard has saved.
C2_Witness ==
    /\ pc = "install_packages"
    /\ \E p \in DOMAIN credentials : \E key \in DOMAIN credentials[p] :
         /\ credentials[p][key] = S_tok123
         /\ BACKUP_FILE \in DOMAIN fs
         /\ Get(fs[BACKUP_FILE], key) = S_keychain

\* C9, as the specification states it: GitLab credentials with a token are
\* never reported invalid: "Continue anyway?" is never asked for gitlab, and a
\* configured gitlab is valid in the upfront validation.
C9_GitlabAcceptedWithoutLiveCheck ==
    /\ "gitlab" \notin DOMAIN continue_asked
    /\ "gitlab" \in DOMAIN validation_status => validation_status["gitlab"].valid

ConfluenceFields == PLATFORM_CONFIGS["confluence"].prompt_order

NoConfluenceFieldSet == \A i \in 1..Len(ConfluenceFields) : ~SetInSources(ConfluenceFields[i], sources)

\* The fields prompted for, a field that was prompted for again counted once.
RECURSIVE PromptedFields(_)
PromptedFields(log) ==
    IF log = << >> THEN << >>
    ELSE LET before == PromptedFields(SubSeq(log, 1, Len(log) - 1))
             var == log[Len(log)].var
         IN  IF before # << >> /\ before[Len(before)] = var THEN before ELSE Append(before, var)

Answer(var_name, answer) == [var |-> var_name, answer |-> answer]

ConfluenceAnswers ==
    <<Answer("CONFLUENCE_SITE_URL", S_mycompany),
      Answer("CONFLUENCE_EMAIL", S_user_email),
      Answer("CONFLUENCE_API_TOKEN", S_tok123)>>

ConfluenceExpected ==
    [v \in {"CONFLUENCE_SITE_URL", "CONFLUENCE_EMAIL", "CONFLUENCE_API_TOKEN"} |->
        CASE v = "CONFLUENCE_SITE_URL" -> <<"h","t","t","p","s",":","/","/">> \o S_mycompany
          [] v = "CONFLUENCE_EMAIL" -> S_user_email
          [] OTHER -> S_tok123]

\* The collected Confluence credentials have just been tested.
ConfluenceTested ==
    /\ pc = "platform"
    /\ last_validation.site = "collected"
    /\ last_validation.platform = "confluence"

\* C10: with no Confluence field set in any source, the collector prompts
\* for the site URL, then the email, then the token; and when the answers were
\* mycompany.atlassian.net, user@co.com and tok123, the collected credentials
\* are https://mycompany.atlassian.net, user@co.com and tok123 and
\* validate_confluence is called with exactly these three values.
C10_EndToEndCollection ==
    /\ (pc = "collect" /\ ThisPlatform = "confluence" /\ NoConfluenceFieldSet) =>
           \E n \in {field - 1, field} :
              /\ n <= Len(ConfluenceFields)
              /\ PromptedFields(prompted) = SubSeq(ConfluenceFields, 1, n)
    /\ (ConfluenceTested /\ NoConfluenceFieldSet) => PromptedFields(prompted) = ConfluenceFields
    /\ (ConfluenceTested /\ prompted = ConfluenceAnswers) =>
           /\ creds = ConfluenceExpected
           /\ last_validation.call =
                 Call("validate_confluence", ConfluenceExpected["CONFLUENCE_SITE_URL"],
                      ConfluenceExpected["CONFLUENCE_EMAIL"],
                      ConfluenceExpected["CONFLUENCE_API_TOKEN"])

\* C10: the three answers were given to the three prompts and the collected
\* credentials were tested.
C10_Witness ==
    /\ ConfluenceTested
    /\ NoConfluenceFieldSet
    /\ prompted = ConfluenceAnswers

(***************************************************************************)
(* Properties of the save step run twice.                                  *)
(***************************************************************************)
PersistsNow == pc \in {"persist", "persisted"} /\ pc' # pc

\* C11, as the specification states it: the second persist leaves the file
\* as the first left it, and each persist produces a backup that holds what
\* the file held before it.
C11_Original ==
    [][PersistsNow =>
         /\ pc = "persisted" => fs'[ENV_FILE] = fs[ENV_FILE]
         /\ BackupPath(ENV_FILE, now') \in DOMAIN fs'
         /\ fs'[BackupPath(ENV_FILE, now')] = load_env_file(fs, ENV_FILE)]_vars

\* C11: persisting the same credentials a second time leaves ~/.env with the
\* content the first persist gave it, one value per key; and every persist
\* that finds ~/.env on disk copies what it held to the backup path of that
\* time.  A persist that finds no ~/.env makes no backup.
C11_PersistIdempotent ==
    [][PersistsNow =>
         /\ pc = "persisted" => fs'[ENV_FILE] = fs[ENV_FILE]
         /\ ENV_FILE \in DOMAIN fs =>
               /\ BackupPath(ENV_FILE, now') \in DOMAIN fs'
               /\ fs'[BackupPath(ENV_FILE, now')] = fs[ENV_FILE]
         /\ ENV_FILE \notin DOMAIN fs => DOMAIN fs' = {ENV_FILE}]_vars

\* C11: the credentials were persisted twice, the first time over a ~/.env
\* that held a keychain lookup for one field and nothing for another.
C11_Witness ==
    /\ pc = "persisted twice"
    /\ \E p \in DOMAIN credentials : \E k1, k2 \in DOMAIN credentials[p] :
         /\ fs[ENV_FILE][k1] = S_keychain
         /\ credentials[p][k1] # S_keychain
         /\ fs[ENV_FILE][k2] = credentials[p][k2]
         /\ credentials[p][k2] # S_keychain
    /\ \E stamp \in {0, 1, 2} : BackupPath(ENV_FILE, stamp) \in DOMAIN fs

(***************************************************************************)
(* Properties of --validate-only, checked under SpecValidateOnly.          *)
(***************************************************************************)
ValidateOnlyDone == flags.VALIDATE_ONLY /\ pc = "done"

\* C12, as the specification states it: validate-only exits 1 whenever a
\* platform is invalid or not configured, and 0 otherwise.
C12_Original ==
    ValidateOnlyDone =>
        exit_code = IF \E p \in PlatformNames :
                          p \notin DOMAIN validation_status \/ ~validation_status[p].valid
                    THEN 1 ELSE 0

\* C12: validate-only validates exactly the configured platforms; it exits 0
\* when at least one platform is configured and every configured platform is
\* valid, and 1 when a configured platform is invalid or none is configured.
\* A platform that is not configured does not by itself make the exit code 1.
C12_ValidateOnlyExitCode ==
    ValidateOnlyDone =>
        /\ DOMAIN validation_status = DOMAIN configured
        /\ exit_code = IF configured # EmptyDict
                          /\ \A p \in DOMAIN configured : validation_status[p].valid
                       THEN 0 ELSE 1

\* C12: validate-only has exited 0 with two platforms configured and valid
\* and another platform not configured.
C12_Witness ==
    /\ ValidateOnlyDone
    /\ exit_code = 0
    /\ Cardinality(DOMAIN configured) >= 2
    /\ \E p \in PlatformNames : p \notin DOMAIN configured

(***************************************************************************)
(* Properties of the exits and of the platform loop, checked under Spec.   *)
(***************************************************************************)
\* C13, as the specification states it: a run without a terminal and with a
\* platform already configured does not end with the non-interactive failure.
C13_NonInteractiveFailsOnlyUnconfigured ==
    (/\ pc = "done"
     /\ ~flags.IS_INTERACTIVE
     /\ ~flags.VALIDATE_ONLY
     /\ ~flags.SKIP_CREDENTIALS
     /\ configured # EmptyDict) => exit_code # 1

\* The collected credentials of the platform at hand are tested and fail.
FailsNow == pc = "collect" /\ pc' = "platform" /\ ~last_validation'.success

InPlatformLoop(at) == at \in {"platform", "collect"}

\* C14: when the test of collected credentials fails the run goes on: the
\* operator is asked "Continue anyway?", the credentials are kept if and only
\* if the answer is yes, the loop moves to the next platform, and the loop is
\* left only when every selected platform has had its turn.
C14_FailedValidationGoesOn ==
    [][/\ FailsNow =>
            /\ ThisPlatform \in DOMAIN continue_asked'
            /\ IF continue_asked'[ThisPlatform]
               THEN credentials' = Put(credentials, ThisPlatform, creds)
               ELSE credentials' = credentials
            /\ idx' = idx + 1
            /\ exit_code' = -1
       /\ (InPlatformLoop(pc) /\ ~InPlatformLoop(pc')) => idx > Len(platforms)]_vars

\* C14: the operator declined to continue with a platform whose test failed,
\* and the credentials of a later platform were accepted.
C14_Witness ==
    \E i, j \in 1..Len(platforms) :
        /\ i < j
        /\ platforms[i] \in DOMAIN continue_asked
        /\ ~continue_asked[platforms[i]]
        /\ platforms[i] \notin DOMAIN credentials
        /\ platforms[j] \in DOMAIN credentials

\* The loop of main has ended and credentials is empty.
LoopEndedEmpty ==
    /\ idx >= 1
    /\ idx > Len(platforms)
    /\ credentials = EmptyDict
    /\ pc # "platform"

\* The env files are as detect_existing_config found them.
NothingWritten ==
    /\ DOMAIN fs \subseteq {ENV_FILE}
    /\ BuildSources(os_environ, fs) = sources

\* C15: an interactive run whose platform loop ends without accepted
\* credentials for any platform exits with code 1, having written no env
\* file and run no package or plugin install.
C15_NoCredentialsExit ==
    LoopEndedEmpty =>
        /\ pc = "done"
        /\ exit_code = 1
        /\ NothingWritten
        /\ to_install = << >>
        /\ pip_log = << >>
        /\ plugin_log = << >>

\* C15: the operator declined to continue with the only platform whose test
\* failed, and the run has ended.
C15_Witness ==
    /\ LoopEndedEmpty
    /\ pc = "done"
    /\ \E p \in DOMAIN continue_asked : ~continue_asked[p]

(***************************************************************************)
(* Properties of collect_credentials, checked under SpecCollector.         *)
(***************************************************************************)
\* collect_credentials is running, or has returned and its result was tested.
CollectorRan ==
    \/ pc = "collect"
    \/ pc = "platform" /\ last_validation.site = "collected"

\* The platform collect_credentials was called for.
CollectedPlatform == platforms[IF pc = "collect" THEN idx ELSE idx - 1]

\* The fields of the platform that collect_credentials is done with.
DoneFields ==
    LET order == PLATFORM_CONFIGS[CollectedPlatform].prompt_order
    IN  {order[i] : i \in 1..(field - 1)}

HoldsValue(src, var_name) == Get(src.env, var_name) # << >>

PromptedFor(var_name) == \E i \in 1..Len(prompted) : prompted[i].var = var_name

\* C16: a field for which some source holds a non-empty value is not
\* prompted for, and the result carries for it the value of the first source
\* in priority order that holds a non-empty value for it, unchanged.
C16_SkipIfSet ==
    CollectorRan =>
        \A v \in DoneFields :
            (\E i \in 1..Len(sources) : HoldsValue(sources[i], v)) =>
                /\ ~PromptedFor(v)
                /\ v \in DOMAIN creds
                /\ \E i \in 1..Len(sources) :
                      /\ HoldsValue(sources[i], v)
                      /\ \A j \in 1..(i - 1) : ~HoldsValue(sources[j], v)
                      /\ creds[v] = sources[i].env[v]

\* C16: the shell holds a field with an empty value, ~/.env holds a value for
\* it, and the collector took the value of ~/.env without prompting.
C16_Witness ==
    /\ CollectorRan
    /\ Len(sources) = 2
    /\ \E v \in DoneFields :
         /\ v \in DOMAIN sources[1].env
         /\ sources[1].env[v] = << >>
         /\ HoldsValue(sources[2], v)
         /\ Get(creds, v) = sources[2].env[v]
         /\ ~PromptedFor(v)

PromptOf(var_name) == PLATFORM_CONFIGS[CollectedPlatform].prompts[var_name]

\* The answers given to the prompts for a field, in order.
AnswersFor(var_name) ==
    LET mine == SelectSeq(prompted, LAMBDA e : e.var = var_name)
    IN  [i \in 1..Len(mine) |-> mine[i].answer]

\* What an answer stands for: an empty answer takes the default shown.
Entered(var_name, answer) ==
    IF answer # << >> THEN answer
    ELSE IF Get(existing_env, var_name) # << >> THEN existing_env[var_name]
    ELSE PromptOf(var_name).default

\* The field's validator accepts what the answer stands for.
PassesValidator(var_name, answer) ==
    RunValidator(PromptOf(var_name).validator, Entered(var_name, answer)).valid

\* The field the collector is prompting for, if it is.
FieldInProgress ==
    IF pc = "collect" /\ Collecting /\ PromptedFor(ThisField) THEN {ThisField} ELSE {}

\* C17: for a prompted field with a validator, an answer the validator
\* rejects is followed by another prompt for the same field, and the value
\* stored for the field is the validator's normalized output for the last
\* answer, which the validator accepted.
C17_NoInvalidValueStored ==
    CollectorRan =>
        /\ \A v \in {f \in DoneFields : PromptedFor(f) /\ PromptOf(f).validator # "none"} :
              LET given == AnswersFor(v)
                  last == given[Len(given)]
              IN  /\ Entered(v, last) # << >>
                  /\ PassesValidator(v, last)
                  /\ v \in DOMAIN creds
                  /\ creds[v] = RunValidator(PromptOf(v).validator, Entered(v, last)).result
                  /\ \A i \in 1..(Len(given) - 1) :
                        Entered(v, given[i]) = << >> \/ ~PassesValidator(v, given[i])
        /\ \A v \in {f \in FieldInProgress : PromptOf(f).validator # "none"} :
              /\ v \notin DOMAIN creds
              /\ \A i \in 1..Len(AnswersFor(v)) :
                    Entered(v, AnswersFor(v)[i]) = << >> \/ ~PassesValidator(v, AnswersFor(v)[i])

\* C17: the validator rejected an answer, the field was prompted for again,
\* and the normalized output for the next answer, which differs from the
\* answer, was stored.
C17_Witness ==
    /\ CollectorRan
    /\ \E v \in DoneFields :
         /\ PromptedFor(v)
         /\ PromptOf(v).validator # "none"
         /\ Len(AnswersFor(v)) = 2
         /\ AnswersFor(v)[1] # << >>
         /\ ~PassesValidator(v, AnswersFor(v)[1])
         /\ creds[v] # AnswersFor(v)[2]

\* C18: a required field that was prompted for is in the result with a
\* non-empty value; an optional field that was prompted for and answered
\* with nothing is in the result with its static default, or is left out of
\* the result when it has no default.
C18_RequiredNonEmptyOptionalDefault ==
    /\ CollectorRan =>
          \A v \in {f \in DoneFields : PromptedFor(f)} :
             LET given == AnswersFor(v)
             IN  /\ ~PromptOf(v).optional => v \in DOMAIN creds /\ creds[v] # << >>
                 /\ (PromptOf(v).optional /\ given[Len(given)] = << >>) =>
                       IF PromptOf(v).default # << >>
                       THEN v \in DOMAIN creds /\ creds[v] = PromptOf(v).default
                       ELSE v \notin DOMAIN creds
    /\ LET no_default == PromptConfig("none", FALSE, FALSE, TRUE, << >>)
           pass == PromptPass(no_default, EmptyDict, "GITLAB_GROUP", << >>)
       IN  /\ pass.accepted
           /\ AddCollected(EmptyDict, "GITLAB_GROUP", pass.value) = EmptyDict

\* C18: a required field was answered with nothing and prompted for again,
\* and the optional field was answered with nothing and holds its default.
C18_Witness ==
    /\ CollectorRan
    /\ ~Collecting
    /\ \E v \in DoneFields :
         /\ ~PromptOf(v).optional
         /\ Len(AnswersFor(v)) = 2
         /\ AnswersFor(v)[1] = << >>
         /\ creds[v] # << >>
    /\ \E v \in DoneFields :
         /\ PromptOf(v).optional
         /\ AnswersFor(v) = << << >> >>
         /\ creds[v] = PromptOf(v).default

(***************************************************************************)
(* Properties of the Splunk validator's SSL setting.                       *)
(***************************************************************************)
SplunkReturned == pc = "returned" /\ v_call.platform = "splunk"

CaCertSetting == Get(os_environ, "SPLUNK_CA_CERT")

VerifySslSetting == StrLower(Get(os_environ, "SPLUNK_VERIFY_SSL"))

\* The requests of a call are one request made with the given setting.
OneRequestWith(verify_kind) ==
    /\ Len(v_result.requests) = 1
    /\ v_result.requests[1].verify = verify_kind

\* The requests of a call made with no setting: verification enabled, and one
\* more without verification exactly when the first raised an SSL error.
TryBoth ==
    /\ Len(v_result.requests) >= 1
    /\ v_result.requests[1].verify = "True"
    /\ IF v_result.requests[1].outcome.kind = "SSLError"
       THEN /\ Len(v_result.requests) = 2
            /\ v_result.requests[2].verify = "False"
       ELSE Len(v_result.requests) = 1

\* The policy with the given condition for using the CA certificate.
SslPolicy(use_ca_cert) ==
    IF use_ca_cert THEN OneRequestWith("ca_cert")
    ELSE IF VerifySslSetting \in {S_false, <<"0">>, S_no} THEN OneRequestWith("False")
    ELSE IF VerifySslSetting \in {S_true, <<"1">>, S_yes} THEN OneRequestWith("True")
    ELSE TryBoth

\* C19 as stated: a configured CA certificate path takes precedence over
\* everything, whether or not the path names a file.
C19_Original == SplunkReturned => SslPolicy(CaCertSetting # << >>)

\* C19: a configured CA certificate path that names an existing file takes
\* precedence over everything; otherwise (no path, or a path that is not a
\* file) an explicit true/false override is used as is; otherwise the request
\* is made with verification enabled and, only if that attempt raises an SSL
\* error, retried exactly once with verification disabled.
C19_SplunkSslPolicy ==
    SplunkReturned => SslPolicy(CaCertSetting # << >> /\ CaCertSetting \in ca_files)

\* C19: a CA certificate file and an override that disables verification are
\* both configured, and the request was made with the CA certificate.
C19_Witness ==
    /\ SplunkReturned
    /\ CaCertSetting \in ca_files
    /\ VerifySslSetting = S_false
    /\ OneRequestWith("ca_cert")

\* C19: nothing is configured, the verified attempt raised an SSL error and
\* the call was retried without verification.
C19_RetryWitness ==
    /\ SplunkReturned
    /\ CaCertSetting = << >>
    /\ VerifySslSetting \notin {S_false, <<"0">>, S_no, S_true, <<"1">>, S_yes}
    /\ Len(v_result.requests) = 2

(***************************************************************************)
(* Properties of the shell source.                                         *)
(***************************************************************************)
\* Names that start with none of the platform prefixes.
UnprefixedNames == {"PATH", "HOME"}

\* The variables of an environment whose names start with a platform prefix.
PrefixedPart(env) ==
    [k \in {n \in DOMAIN env : NamePrefix(n) \in platform_prefixes} |-> env[k]]

\* The process environments that agree with this one on every variable with
\* a platform prefix: any of the other variables set to any value.
AgreeingEnvironments ==
    {Update(PrefixedPart(os_environ), others) :
        others \in UNION {[names -> {<<"s">>, <<"o">>}] : names \in SUBSET UnprefixedNames}}

ShellSources == {i \in 1..Len(sources) : sources[i].label = "shell"}

FieldValidated(validator_name) == pc = "validated" /\ f_call.validator = validator_name

LabelChars == Lower \cup Upper \cup Digit \cup {"-"}

\* The input is <label>.atlassian.net, the label of letters, digits, hyphens.
SchemelessAtlassianHost(url) ==
    /\ EndsWith(url, S_atlassian_net)
    /\ Len(url) > Len(S_atlassian_net)
    /\ AllIn(SubSeq(url, 1, Len(url) - Len(S_atlassian_net)), LabelChars)

\* C21: every input <label>.atlassian.net without a scheme, the label made
\* of letters, digits and hyphens, is accepted by validate_atlassian_url and
\* comes back with https:// prepended.
C21_SchemelessAtlassianAccepted ==
    (FieldValidated("atlassian_url") /\ SchemelessAtlassianHost(f_call.value)) =>
        /\ f_result.valid
        /\ f_result.result = S_https_scheme \o f_call.value

\* The input without its scheme.
AfterScheme(url) ==
    IF StartsWith(url, S_https_scheme) THEN SubSeq(url, Len(S_https_scheme) + 1, Len(url))
    ELSE IF StartsWith(url, S_http_scheme) THEN SubSeq(url, Len(S_http_scheme) + 1, Len(url))
    ELSE url

\* The host of a URL: what follows the scheme, up to the port or the path.
RECURSIVE UpToDelimiter(_)
UpToDelimiter(s) ==
    IF s = << >> \/ s[1] \in {"/", ":", "?", "#"} THEN << >>
    ELSE <<s[1]>> \o UpToDelimiter(Tail(s))

HostOf(url) == UpToDelimiter(AfterScheme(url))

UnderAtlassianNet(url) ==
    EndsWith(HostOf(url), S_atlassian_net) /\ Len(HostOf(url)) > Len(S_atlassian_net)

DomainMessage == "Must be an Atlassian Cloud URL (*.atlassian.net)"

\* C22 as stated: every input whose host is not under .atlassian.net is
\* rejected with the domain-specific message.
C22_Original ==
    (FieldValidated("atlassian_url") /\ ~UnderAtlassianNet(f_call.value)) =>
        /\ ~f_result.valid
        /\ f_result.error = DomainMessage

\* C22: every input whose host is not under .atlassian.net is rejected; the
\* message is the domain-specific one when the text .atlassian.net occurs
\* nowhere in the input, and the format message when it occurs outside the
\* end of the host.
C22_NonAtlassianHostRejected ==
    (FieldValidated("atlassian_url") /\ ~UnderAtlassianNet(f_call.value)) =>
        /\ ~f_result.valid
        /\ f_result.error = IF Contains(f_call.value, S_atlassian_net)
                            THEN "Invalid Atlassian URL format"
                            ELSE DomainMessage

\* C22: an https URL of another domain was rejected with the domain message.
C22_Witness ==
    /\ FieldValidated("atlassian_url")
    /\ StartsWith(f_call.value, S_https_scheme)
    /\ HostOf(f_call.value) = <<"9">> \o S_example_com
    /\ ~f_result.valid
    /\ f_result.error = DomainMessage

\* The positions of a character in a string.
Positions(s, c) == {i \in 1..Len(s) : s[i] = c}

Max(S) == CHOOSE x \in S : \A y \in S : y <= x

\* The part of an address after its last "@"; the address when it has none.
DomainPart(email) ==
    IF Positions(email, "@") = {} THEN << >>
    ELSE SubSeq(email, Max(Positions(email, "@")) + 1, Len(email))

\* The part of an address's domain after its last "."; empty when it has none.
TopLevelDomain(email) ==
    LET domain == DomainPart(email)
    IN  IF Positions(domain, ".") = {} THEN << >>
        ELSE SubSeq(domain, Max(Positions(domain, ".")) + 1, Len(domain))

\* local@domain.tld: one "@", a local part of letters, digits and ._%+-, a
\* domain of letters, digits, dots and hyphens, a top-level domain of two or
\* more letters.
ValidEmailShape(email) ==
    /\ Cardinality(Positions(email, "@")) = 1
    /\ LET at == Max(Positions(email, "@"))
           domain == DomainPart(email)
           tld == TopLevelDomain(email)
       IN  /\ at > 1
           /\ AllIn(SubSeq(email, 1, at - 1),
                    Lower \cup Upper \cup Digit \cup {".", "_", "%", "+", "-"})
           /\ Len(tld) >= 2
           /\ AllIn(tld, Lower \cup Upper)
           /\ Len(domain) > Len(tld) + 1
           /\ AllIn(domain, Lower \cup Upper \cup Digit \cup {".", "-"})

\* C23: every input of the shape local@domain.tld is accepted by
\* validate_email and comes back lower-cased; every input without an "@" or
\* without a top-level domain is rejected.
C23_EmailShape ==
    FieldValidated("email") =>
        /\ ValidEmailShape(f_call.value) =>
              f_result.valid /\ f_result.result = StrLower(f_call.value)
        /\ (Positions(f_call.value, "@") = {} \/ TopLevelDomain(f_call.value) = << >>) =>
              ~f_result.valid

\* C23: an address with an upper-case letter was accepted and lower-cased.
C23_Witness ==
    /\ FieldValidated("email")
    /\ ValidEmailShape(f_call.value)
    /\ f_call.value # StrLower(f_call.value)
    /\ f_result.valid
    /\ f_result.result = StrLower(f_call.value)

(***************************************************************************)
(* Properties of the install steps.                                        *)
(***************************************************************************)
\* main() has called install_python_packages and it is over.
PackagesStepOver == to_install # << >> /\ pc \in {"install_plugins", "summary", "done"}

\* main() is past the call of install_claude_plugins.
PluginsStepOver == to_install # << >> /\ pc \in {"summary", "done"}

\* install_claude_plugins had plugins to install: it was not skipped, the
\* claude CLI is there and the marketplace is listed or was added.
PluginsWanted ==
    /\ ~flags.SKIP_PLUGINS
    /\ "claude" \in cli_tools
    /\ \A i \in 1..Len(plugin_log) :
          plugin_log[i] # Attempt("as-plugins marketplace", "FAILED")

\* C24: whatever fails, pip was run for the package of every platform in the
\* list that has one and, when plugins are to be installed, every platform's
\* plugin was installed, found installed or attempted.
C24_InstallFailuresIndependent ==
    /\ PackagesStepOver =>
          \A p \in Range(PipPlatforms(to_install)) :
             \E i \in 1..Len(pip_log) : pip_log[i].name = packages[p]
    /\ (PluginsStepOver /\ PluginsWanted) =>
          \A p \in Range(to_install) :
             \E i \in 1..Len(plugin_log) : plugin_log[i].name = plugin_names[p]

\* C24: the same, for a pip that starts every time (it exits zero or not).
C24_NonZeroExitGoesOn ==
    (\A i \in 1..Len(pip_log) : pip_log[i].result # "raised") => C24_InstallFailuresIndependent

(***************************************************************************)
(* Further properties of the live validators.                              *)
(***************************************************************************)
\* C25: in validate_jira an endpoint that answers HTTP 403 is the last one
\* requested, and the call returns the access-denied failure.
C25_Jira403Fatal ==
    Returned({"jira"}) =>
        \A i \in 1..Len(v_result.requests) :
            Answered(v_result.requests[i], 403) =>
                /\ i = Len(v_result.requests)
                /\ ~v_result.success
                /\ v_result.message = "Access denied - check API token permissions"

\* C25: the first JIRA endpoint answered 403 and the second, which would
\* have answered 200, was not requested.
C25_Witness ==
    /\ Returned({"jira"})
    /\ Len(v_result.requests) = 1
    /\ Answered(v_result.requests[1], 403)
    /\ v_call.net[2] = Response(200, "named")
    /\ ~v_result.success

\* The request raised something other than a timeout or a connection
\* failure, or its 200 response has a body that cannot be read.
Swallowed(req) ==
    \/ req.outcome.kind = "Exception"
    \/ Answered(req, 200) /\ req.outcome.body = "invalid"

ExhaustedMessages(platform) ==
    {"Could not validate credentials",
     IF platform = "confluence" THEN "Confluence not found at this URL"
     ELSE "JIRA not found at this URL"}
      \cup {"API returned status " \o ToString(s) : s \in StatusCodes}
      \cup (IF platform = "confluence"
            THEN {"Access denied - check API token permissions"} ELSE {})

\* C26: in validate_confluence and validate_jira a request that raises an
\* exception other than a timeout or a connection failure, or whose 200
\* response cannot be read, is followed by a request to the next endpoint;
\* after the last endpoint the call ends as it does when the endpoints are
\* exhausted.
C26_GenericExceptionSwallowed ==
    Returned({"confluence", "jira"}) =>
        \A i \in 1..Len(v_result.requests) :
            Swallowed(v_result.requests[i]) =>
                /\ v_result.raised = ""
                /\ i < Len(Endpoints(v_call.platform)) => Len(v_result.requests) > i
                /\ i = Len(Endpoints(v_call.platform)) =>
                      /\ ~v_result.success
                      /\ v_result.message \in ExhaustedMessages(v_call.platform)

\* C26: the first Confluence endpoint raised a generic exception, the second
\* answered 200 with an unreadable body, and the third made the call succeed.
C26_Witness ==
    /\ Returned({"confluence"})
    /\ Len(v_result.requests) = 3
    /\ v_result.requests[1].outcome.kind = "Exception"
    /\ Answered(v_result.requests[2], 200)
    /\ v_result.requests[2].outcome.body = "invalid"
    /\ v_result.success

\* C27: when validate_splunk's last request got a response, a 200 gives
\* success, a 401 the invalid-credentials failure, and any other status a
\* failure whose message carries the status code.
C27_SplunkStatusMapping ==
    SplunkReturned =>
        LET last == v_result.requests[Len(v_result.requests)].outcome
        IN  last.kind = "response" =>
              /\ v_result.success <=> last.status = 200
              /\ last.status = 200 => v_result.message = "Connected"
              /\ last.status = 401 =>
                    v_result.message = "Invalid credentials (401 Unauthorized)"
              /\ last.status \notin {200, 401} =>
                    v_result.message = "API returned status " \o ToString(last.status)

\* C27: Splunk answered 403 and the message carries that code.
C27_Witness ==
    /\ SplunkReturned
    /\ Len(v_result.requests) = 1
    /\ Answered(v_result.requests[1], 403)
    /\ ~v_result.success
    /\ v_result.message = "API returned status 403"

(***************************************************************************)
(* Further properties of the collector.                                    *)
(***************************************************************************)
\* C28: every key of the collector's result maps to a non-empty string, and
\* a field left without a value (optional, no default, answered with
\* nothing) is not added to the result.
C28_NoEmptyValueCollected ==
    /\ CollectorRan => \A k \in DOMAIN creds : creds[k] # << >>
    /\ \A d \in {EmptyDict, [GITLAB_TOKEN |-> S_tok123]} :
          LET blank == PromptPass(PromptConfig("none", FALSE, FALSE, TRUE, << >>),
                                  EmptyDict, "GITLAB_GROUP", << >>)
          IN  blank.accepted /\ AddCollected(d, "GITLAB_GROUP", blank.value) = d

\* C28: collect_credentials returned three values for a platform after a
\* prompt was answered with nothing.
C28_Witness ==
    /\ CollectorRan
    /\ ~Collecting
    /\ CollectedPlatform # "gitlab"
    /\ \E i \in 1..Len(prompted) : prompted[i].answer = << >>
    /\ Cardinality(DOMAIN creds) = 3

(***************************************************************************)
(* Properties of the platform prerequisites.                               *)
(***************************************************************************)
\* The loop of main is at a platform whose CLI is missing and the step does
\* not enter collect_credentials: the operator continues without it.
SkipsCliPlatform ==
    /\ InLoop
    /\ ~check_platform_prerequisites(ThisPlatform, cli_tools)
    /\ pc' # "collect"

\* C29: when the CLI of a CLI-kind platform is missing and the operator
\* continues without the platform, the run goes on with the next selected
\* platform: nothing is collected, validated or stored for the skipped one
\* and the process does not exit.
C29_MissingCliSkipsPlatform ==
    [][SkipsCliPlatform =>
          /\ pc' = "platform"
          /\ idx' = idx + 1
          /\ platforms' = platforms
          /\ UNCHANGED <<exit_code, credentials, cred_order, last_validation,
                         continue_asked, collector>>]_vars

\* C29: GitLab was skipped for want of glab and Splunk, selected after it,
\* was collected and stored.
C29_Witness ==
    /\ platforms = <<"gitlab", "splunk">>
    /\ "glab" \notin cli_tools
    /\ pc = "platform"
    /\ idx = 3
    /\ "splunk" \in DOMAIN credentials
    /\ "gitlab" \notin DOMAIN credentials \cup DOMAIN continue_asked

(***************************************************************************)
(* Properties of the validator dispatch.                                   *)
(***************************************************************************)
\* main has just tested the credentials collect_credentials returned.
TestedCollected(names) ==
    /\ pc = "platform"
    /\ last_validation.site = "collected"
    /\ last_validation.platform \in names

\* C30: for confluence, jira and splunk the platform validator is called
\* with the values the collector stored under the platform's required field
\* names: the URL field's value as base URL, then the second and the third
\* required field.
C30_ValidatorGetsCollectedFields ==
    TestedCollected({"confluence", "jira", "splunk"}) =>
        LET config == PLATFORM_CONFIGS[last_validation.platform]
        IN  /\ last_validation.call.url = Get(creds, config.url_var)
            /\ last_validation.call.user = Get(creds, config.required_vars[2])
            /\ last_validation.call.secret = Get(creds, config.required_vars[3])

\* C30: the same for confluence and jira alone.
C30_AtlassianValidatorsGetCollectedFields ==
    TestedCollected({"confluence", "jira"}) =>
        LET config == PLATFORM_CONFIGS[last_validation.platform]
        IN  /\ last_validation.call.url = Get(creds, config.url_var)
            /\ last_validation.call.user = Get(creds, config.required_vars[2])
            /\ last_validation.call.secret = Get(creds, config.required_vars[3])

(***************************************************************************)
(* The runs that collect nothing: --validate-only, --skip-credentials and  *)
(* the choice to keep the existing configuration, each up to its exit.  A  *)
(* run whose operator chooses to configure a platform is followed up to    *)
(* that choice.                                                            *)
(***************************************************************************)
InitKeepConfig ==
    /\ pc = "start"
    /\ Fresh
    /\ flags \in {NoFlags,
                  [NoFlags EXCEPT !.VALIDATE_ONLY = TRUE],
                  [NoFlags EXCEPT !.SKIP_CREDENTIALS = TRUE],
                  [NoFlags EXCEPT !.VALIDATE_ONLY = TRUE, !.SKIP_CREDENTIALS = TRUE],
                  [NoFlags EXCEPT !.SKIP_CREDENTIALS = TRUE, !.SKIP_PLUGINS = TRUE]}
    /\ cli_tools = {"glab", "claude"}
    /\ now = 0
    /\ ca_files = {}
    /\ \E in_shell \in SUBSET PlatformNames, in_home \in SUBSET PlatformNames :
         /\ Cardinality(in_shell \cup in_home) <= MaxPlatforms
         /\ os_environ = FieldsOf(in_shell, S_tok123)
         /\ fs = IF in_home = {} THEN EmptyDict
                 ELSE [f \in {ENV_FILE} |-> FieldsOf(in_home, S_keychain)]

NextKeepConfig ==
    \/ DetectExistingConfig
    \/ ValidateExistingConfig
    \/ ValidateOnly
    \/ SkipCredentials
    \/ SelectPlatforms
    \/ InstallPythonPackages
    \/ InstallClaudePlugins
    \/ ShowSummary

SpecKeepConfig == InitKeepConfig /\ [][NextKeepConfig]_vars

(***************************************************************************)
(* The interactive runs, started with nothing in the shell and with ~/.env *)
(* absent or holding one platform.                                         *)
(***************************************************************************)
InitInteractive ==
    /\ pc = "start"
    /\ Fresh
    /\ flags = NoFlags
    /\ cli_tools \in {{"glab", "claude"}, {}}
    /\ now = 0
    /\ ca_files = {}
    /\ os_environ = EmptyDict
    /\ \E p \in PlatformNames :
         fs \in {EmptyDict} \cup {[f \in {ENV_FILE} |-> home] : home \in HomeChoices(p)}

NextInteractive ==
    \/ DetectExistingConfig
    \/ ValidateExistingConfig
    \/ SelectPlatforms
    \/ SkipWithoutCli
    \/ ReuseAtlassian
    \/ BeginCollect
    \/ CollectFromSource
    \/ CollectPrompt
    \/ ValidateCollected
    \/ NoPlatformsConfigured
    \/ SaveConfiguration
    \/ InstallPythonPackages
    \/ InstallClaudePlugins
    \/ ShowSummary

SpecInteractive == InitInteractive /\ [][NextInteractive]_vars

(***************************************************************************)
(* Properties of the reuse of the Atlassian credentials.                   *)
(***************************************************************************)
\* main has just tested the Confluence credentials against JIRA.
TestedReuse == last_validation.site = "reuse" /\ "confluence" \in DOMAIN credentials

\* C31: when the Confluence credentials are reused for JIRA, validate_jira
\* is called with the site URL, the e-mail and the token accepted for
\* Confluence, and after a successful test the mapping stored for jira holds
\* JIRA_SITE_URL, JIRA_EMAIL and JIRA_API_TOKEN with those values.
C31_ReuseTestsConfluenceValues ==
    TestedReuse =>
        LET accepted == credentials["confluence"]
        IN  /\ last_validation.call.validator = "validate_jira"
            /\ last_validation.call.url = Get(accepted, "CONFLUENCE_SITE_URL")
            /\ last_validation.call.user = Get(accepted, "CONFLUENCE_EMAIL")
            /\ last_validation.call.secret = Get(accepted, "CONFLUENCE_API_TOKEN")
            /\ last_validation.success =>
                  /\ "jira" \in DOMAIN credentials
                  /\ Get(credentials["jira"], "JIRA_SITE_URL") = Get(accepted, "CONFLUENCE_SITE_URL")
                  /\ Get(credentials["jira"], "JIRA_EMAIL") = Get(accepted, "CONFLUENCE_EMAIL")
                  /\ Get(credentials["jira"], "JIRA_API_TOKEN") = Get(accepted, "CONFLUENCE_API_TOKEN")

\* C31: what the code does instead: the JIRA validator gets three empty
\* values and the test of reused credentials never succeeds.
C31_ReuseNeverSucceeds ==
    TestedReuse =>
        /\ last_validation.call = Call("validate_jira", << >>, << >>, << >>)
        /\ ~last_validation.success

(***************************************************************************)
(* Properties of the reconfiguration of a platform.                        *)
(***************************************************************************)
\* The platform was found configured and its upfront validation failed.
FailedUpfront(platform) ==
    platform \in DOMAIN validation_status /\ ~validation_status[platform].valid

\* C32: when a configured platform whose upfront validation failed is
\* selected and collect_credentials has run for it, the operator was
\* prompted for each of its required fields and the values tested are the
\* ones entered.
C32_ReconfigurePrompts ==
    \A p \in PlatformNames :
        (TestedCollected({p}) /\ FailedUpfront(p)) =>
            \A v \in Range(PLATFORM_CONFIGS[p].required_vars) :
                /\ PromptedFor(v)
                /\ Get(creds, v) # Get(configured[p], v)

\* C32: what the code does instead: no required field of such a platform is
\* prompted for, and the values tested are the configured ones again.
C32_ReconfigureReusesSources ==
    \A p \in PlatformNames :
        (TestedCollected({p}) /\ FailedUpfront(p)) =>
            \A v \in Range(PLATFORM_CONFIGS[p].required_vars) :
                /\ ~PromptedFor(v)
                /\ Get(creds, v) = Get(configured[p], v)

(***************************************************************************)
(* Properties of empty values in the sources, checked under SpecResolver.  *)
(***************************************************************************)
\* Some source holds a non-empty value for the field.
SetSomewhere(srcs, var) ==
    \E i \in 1..Len(srcs) : Get(srcs[i].env, var) # << >>

\* C33: a platform every required field of which has a non-empty value in
\* at least one source is reported configured, whatever empty values the
\* sources of higher priority hold for those fields.
C33_EmptyValueDoesNotHide ==
    pc = "detected" =>
        \A p \in PlatformNames :
            (\A var \in Range(PLATFORM_CONFIGS[p].required_vars) :
                 SetSomewhere(sources, var))
                => p \in DOMAIN configured

\* C33: what the code does instead: a required field whose earliest-listed
\* definition is empty keeps the platform out of configured, whether or not
\* a later source sets it.
C33_EmptyValueHides ==
    pc = "detected" =>
        \A p \in PlatformNames :
            \A var \in Range(PLATFORM_CONFIGS[p].required_vars) :
                (/\ var \in DOMAIN existing_env
                 /\ sources[EarliestDefining(sources, var)].env[var] = << >>)
                    => p \notin DOMAIN configured

(***************************************************************************)
(* Properties of the runs that collect nothing, checked under              *)
(* SpecKeepConfig.                                                         *)
(***************************************************************************)
\* The operator chose to keep the existing configuration: the install steps
\* were entered by an interactive run whose platform loop never started.
KeptExisting ==
    /\ ~flags.VALIDATE_ONLY
    /\ ~flags.SKIP_CREDENTIALS
    /\ idx = 0
    /\ to_install # << >>

\* C34: no step of a --validate-only run asks the operator anything, writes
\* a file or attempts an install, and no step of a --skip-credentials run or
\* of a run that keeps the existing configuration collects a credential or
\* writes a file.
C34_ModesLeaveConfigUntouched ==
    [][/\ flags.VALIDATE_ONLY =>
            /\ fs' = fs
            /\ prompted' = prompted
            /\ platforms' = platforms
            /\ continue_asked' = continue_asked
            /\ reuse_atlassian' = reuse_atlassian
            /\ pip_log' = pip_log
            /\ plugin_log' = plugin_log
       /\ (flags.SKIP_CREDENTIALS \/ KeptExisting') =>
            /\ fs' = fs
            /\ prompted' = prompted
            /\ creds' = creds
            /\ credentials' = credentials
            /\ credentials = EmptyDict]_vars

\* C34's case: a run that kept the existing configuration of ~/.env has
\* attempted its installs and ended.
C34_Witness ==
    /\ KeptExisting
    /\ pc = "done"
    /\ pip_log # << >>
    /\ plugin_log # << >>
    /\ ENV_FILE \in DOMAIN fs

(***************************************************************************)
(* Properties of what the save step adds, checked under SpecPersist.       *)
(***************************************************************************)
\* C35: the mapping the save step writes to ~/.env holds every key that
\* ~/.env held with a non-empty value, with that value, whether or not the key
\* is a field of a platform of the run; and a key that is new in the written
\* mapping, or whose value differs from the one ~/.env held, is a field of a
\* platform in credentials and has the value accepted for it.
C35_PersistOnlyAdds ==
    [][LET home_env == load_env_file(fs, ENV_FILE)
       IN  /\ ENV_FILE \in DOMAIN fs'
           /\ \A k \in DOMAIN home_env :
                home_env[k] # << >> => Get(fs'[ENV_FILE], k) = home_env[k]
           /\ \A k \in DOMAIN fs'[ENV_FILE] :
                (k \notin DOMAIN home_env \/ fs'[ENV_FILE][k] # home_env[k]) =>
                    \E p \in DOMAIN credentials :
                        /\ k \in Range(PLATFORM_CONFIGS[p].prompt_order)
                        /\ k \in DOMAIN credentials[p]
                        /\ fs'[ENV_FILE][k] = credentials[p][k]]_vars

\* C35's case: ~/.env held a key that is no field of any platform, the save
\* step has run once, and it has added a key and filled an empty one.
C35_Witness ==
    /\ pc = "persisted"
    /\ BACKUP_FILE \in DOMAIN fs
    /\ Get(fs[BACKUP_FILE], "EDITOR") = S_keychain
    /\ Get(fs[ENV_FILE], "EDITOR") = S_keychain
    /\ \E k \in DOMAIN fs[ENV_FILE] : k \notin DOMAIN fs[BACKUP_FILE]
    /\ \E k \in DOMAIN fs[BACKUP_FILE] :
         fs[BACKUP_FILE][k] = << >> /\ fs[ENV_FILE][k] # << >>

(***************************************************************************)
(* Properties of the order of the steps, checked under SpecInteractive.    *)
(***************************************************************************)
\* The platform loop of main is over.
PastLoop == pc \in {"install_packages", "install_plugins", "summary", "done"}

\* The platform loop of main was entered.
RanLoop == idx >= 1

Names(log) == {log[i].name : i \in 1..Len(log)}

\* C36: in an interactive run the files change in one step only, the step
\* that leaves the platform loop after its last platform, and never after
\* it; a platform is in credentials after its test exactly when the test
\* succeeded or the operator answered yes to "Continue anyway?"; the install
\* steps are entered, in a run that collects, by that one step, which has
\* written ~/.env with every accepted field; and pip and the plugin installer
\* are given exactly the platforms of credentials, in the order they were
\* accepted, and attempt nothing else.
C36_StepOrdering ==
    [][/\ fs' # fs => /\ pc = "platform"
                      /\ idx > Len(platforms)
                      /\ pc' = "install_packages"
       /\ PastLoop => PastLoop' /\ fs' = fs
       /\ (pc = "collect" /\ pc' = "platform") =>
            (ThisPlatform \in DOMAIN credentials' <=>
                \/ last_validation'.success
                \/ ThisPlatform \in DOMAIN continue_asked' /\ continue_asked'[ThisPlatform])
       /\ (pip_log' # pip_log \/ plugin_log' # plugin_log) => PastLoop
       /\ (~PastLoop /\ pc' = "install_packages" /\ RanLoop') =>
            /\ idx > Len(platforms)
            /\ ENV_FILE \in DOMAIN fs'
            /\ \A p \in DOMAIN credentials : DOMAIN credentials[p] \subseteq DOMAIN fs'[ENV_FILE]
       /\ (PastLoop' /\ RanLoop') =>
            /\ to_install' = cred_order'
            /\ Range(to_install') = DOMAIN credentials'
            /\ Names(pip_log') \subseteq {packages[p] : p \in Range(PipPlatforms(to_install'))}
            /\ Names(plugin_log') \subseteq
                  {plugin_names[p] : p \in Range(to_install')} \cup {"as-plugins marketplace"}
            /\ pc' \in {"install_plugins", "summary"} =>
                  pip_log' = [i \in 1..Len(PipPlatforms(to_install')) |->
                                 Attempt(packages[PipPlatforms(to_install')[i]],
                                         pip_log'[i].result)]]_vars

\* C36's case: of two selected platforms one was accepted and one was
\* skipped after its test failed; ~/.env was written and the installs were
\* attempted for the accepted one.
C36_Witness ==
    /\ pc = "done"
    /\ exit_code = 0
    /\ Len(platforms) = 2
    /\ Len(to_install) = 1
    /\ \E p \in Range(platforms) : p \in DOMAIN continue_asked /\ ~continue_asked[p]
    /\ ENV_FILE \in DOMAIN fs
    /\ pip_log # << >>
    /\ plugin_log # << >>

(***************************************************************************)
(* Properties of the number of requests, checked under SpecValidators.     *)
(***************************************************************************)
\* C37: whatever the network answers, a validator call returns after at most
\* 3 requests for Confluence, at most 2 for JIRA and at most 2 for Splunk; a
\* second Splunk request is made only when neither a CA certificate nor an
\* override decides the SSL policy and the first request, made with
\* verification, raised an SSL error; GitLab and unknown platforms make none.
C37_BoundedRequests ==
    pc = "returned" =>
        LET made == Len(v_result.requests)
        IN  /\ v_call.platform = "confluence" => made <= 3
            /\ v_call.platform = "jira" => made <= 2
            /\ v_call.platform = "splunk" =>
                 /\ made <= 2
                 /\ made = 2 =>
                      /\ get_splunk_ssl_verify(os_environ, ca_files) = VerifyNone
                      /\ v_result.requests[1].verify = "True"
                      /\ v_result.requests[1].outcome.kind = "SSLError"
            /\ v_call.platform \notin {"confluence", "jira", "splunk"} => made = 0

\* C37's case: a Confluence call went through its three endpoints, none of
\* which settled the outcome, and returned.
C37_Witness ==
    /\ pc = "returned"
    /\ v_call.platform = "confluence"
    /\ Len(v_result.requests) = 3
    /\ \A i \in 1..3 : v_result.requests[i].outcome.kind # "response"
    /\ ~v_result.success

====
